---- MODULE Spec2Model ----
(***************************************************************************)
(* Website Highlight Saver: the background service worker's storage        *)
(* coordinator (serialized read-modify-write of the persisted highlights   *)
(* list), its sliding-window rate limiter, and the summarization path from *)
(* a page context (AIUtils + CacheManager) through the background service. *)
(*                                                                         *)
(* Strings of the program are represented by their length (text, url) and  *)
(* ids by numbers; 0 stands for a value that is absent, empty or not of    *)
(* the required type.  Times are milliseconds.                             *)
(***************************************************************************)
EXTENDS Integers, Sequences, FiniteSets, TLC

VARIABLES
    highlights,         \* chrome.storage.local "highlights": the persisted list
    storageLock,        \* BackgroundService._storageLock: the tail promise of the chain
    released,           \* the lock promises that are resolved
    ops,                \* the mutating operations, in the order they were invoked
    completed,          \* indices of ops whose promise has settled, in completion order
    nextId,             \* crypto.randomUUID: the next id generateId hands out
    getResult,          \* what the last getHighlights returned
    getAt,              \* how many operations had completed when it read the store
    errors,             \* the errors handleMessage reported for rejected storage calls
    sentTo,             \* per tab: the highlightsUpdated messages sent to it
    now,                \* Date.now()
    apiCallTimestamps,  \* BackgroundService._apiCallTimestamps
    admitted,           \* every time at which _checkRateLimit admitted a call
    rateOutcome,        \* outcome of the last _checkRateLimit call
    lastRejectAt,       \* the time of the last call _checkRateLimit rejected (0: none)
    summaryCache,       \* chrome.storage.local "summaryCache", in key insertion order
    aiConfigured,       \* whether an OPENAI_API_KEY is configured
    pageSummaryCache,   \* CacheManager.summaryCache of each page context
    apiRequestQueue,    \* CacheManager.apiRequestQueue of each page context
    calls,              \* the AIUtils.summarizeHighlight calls, in call order
    requests,           \* the summarizeHighlight messages sent to the background
    trips,              \* the page-to-background round trips of StorageUtils
    pendingHighlight,   \* HighlightSaver.pendingHighlight: the selection snapshot (0: null)
    selections,         \* how many selections the user has made on the page
    pageSaves,          \* the saveHighlightFromPending calls, in call order
    markers,            \* the spans markTextAsSavedFromPending placed on the page
    dom,                \* the text nodes of document.body in document order, each with
                        \* its text and the highlight spans around it (outermost first)
    nextNode,           \* the next node the document creates
    pageText,           \* the text content of the page before anything was marked
    textNodeCache,      \* CacheManager.textNodeCache
    savedHighlightsData,\* HighlightSaver.savedHighlightsData, of the current url
    passes,             \* the processInChunks runs of markExistingHighlights
    locateCase,         \* the candidate text nodes and the stored data of a lookup
    located,            \* the node each locator chose (0: not called)
    pageSummaries,      \* CacheManager.summaryCache of the page, in Map order
    cacheRead,          \* the last read of a cache of the page and what it returned
    lastSweep,          \* the caches limitCacheSizes last found and left
    keyCase,            \* two highlights and the summary cache keys generated for them
    rangeCase           \* a document, a search text and the range found for it

storageVars == <<highlights, storageLock, released, ops, completed, nextId, getResult, getAt,
                 errors, sentTo>>
rateVars == <<now, apiCallTimestamps, admitted, rateOutcome, lastRejectAt>>
sumVars == <<summaryCache, aiConfigured, pageSummaryCache, apiRequestQueue, calls, requests>>
tripVars == <<trips>>
pageVars == <<pendingHighlight, selections, pageSaves, markers>>
domVars == <<dom, nextNode, pageText, textNodeCache, savedHighlightsData, passes>>
locVars == <<locateCase, located>>
cacheVars == <<pageSummaries, cacheRead, lastSweep>>
fnVars == <<keyCase, rangeCase>>
contentVars == <<pageVars, domVars, locVars, cacheVars, fnVars>>
vars == <<storageVars, rateVars, sumVars, tripVars, contentVars>>

(***************************************************************************)
(* Bounds of the model.                                                    *)
(***************************************************************************)
\* the capacity cap of the persisted list, scaled down from the program's 1000
MAX_HIGHLIGHTS == 2
\* mutating operations invoked in one behaviour
MaxOps == 3
\* foreign records in one import file: enough to exceed the cap
MaxBatch == MAX_HIGHLIGHTS + 1
\* the clock stops here
MaxTime == 130000
\* calls the rate limiter admits in one behaviour
MaxAdmitted == 7
\* AIUtils.summarizeHighlight calls in one behaviour
MaxCalls == 2
\* StorageUtils round trips in one behaviour
MaxTrips == 2
\* selections the user makes on a page in one behaviour
MaxSelections == 2
\* processInChunks' default chunkSize, scaled down from the program's 5
chunkSize == 2
\* mark passes in one behaviour
MaxPasses == 2

(***************************************************************************)
(* Program constants.                                                      *)
(***************************************************************************)
MAX_TEXT_LENGTH == 1000
MAX_URL_LENGTH == 500
RATE_LIMIT_MAX == 5
RATE_LIMIT_WINDOW == 60000
SUMMARY_CACHE_TTL == 300000
MAX_SUMMARY_CACHE == 50
\* the timeout sendMessageToBackground applies to a summarize round trip
SUMMARIZE_TIMEOUT == 30000
\* StorageUtils.requestTimeout: the timeout of a saveHighlight round trip
requestTimeout == 5000
\* CacheManager.cacheValidityDuration
cacheValidityDuration == 30000
SHORT_TEXT_THRESHOLD == 3
SHORT_TEXT_MAX_MATCHES == 10
LONG_TEXT_MAX_MATCHES == 5

\* the page contexts (two tabs on one url) and the cache keys of the
\* selections made in them: two in the first tab, one of them also in the second
Pages == {1, 2}
Keys == {"k1", "k2"}
Selections == {<<1, "k1">>, <<1, "k2">>, <<2, "k1">>}

\* Summaries are numbered; NoSummary stands for null or the empty string.
NoSummary == 0

\* no entry for a key in a page's Map
NoEntry == [summary |-> NoSummary, timestamp |-> 0]

\* ids that occur in an import file and were never generated by this installation
ForeignIds == {90}

Highlight(id, text, url, timestamp) ==
    [id |-> id, text |-> text, url |-> url, timestamp |-> timestamp]

\* the selections a page hands to createHighlightObject: handleTextSelection
\* accepts 0 < length < MAX_TEXT_LENGTH
SelectionLengths == {5}
PageUrlLength == 20

\* StorageUtils.generateId / createHighlightObject: a fresh id, the page's url,
\* the capture time
createHighlightObject(textLen) ==
    Highlight(nextId, textLen, PageUrlLength, now)

\* the ids a popup can name: those generated so far, and foreign ones
KnownIds == (1 .. (nextId - 1)) \cup ForeignIds

\* a well-formed record of an import file, and one without an id
FileRecord(id) == Highlight(id, 7, 9, 3)

\* the import files of well-formed records: possibly the record of the first
\* id this installation generated (the file is an earlier export), then up to
\* MaxBatch records of a foreign id
ImportFiles ==
    LET exported == {<<>>} \cup {<<FileRecord(id)>> : id \in {1} \cap KnownIds}
        foreign == {[k \in 1 .. n |-> FileRecord(id)] : n \in 0 .. MaxBatch, id \in ForeignIds}
    IN {b \o c : b \in exported, c \in foreign}

\* records the import filter has to reject: no id, no text, text too long,
\* no url, url too long, no timestamp, and an element that is no object
InvalidRecords ==
    {Highlight(0, 7, 9, 3), Highlight(91, 0, 9, 3), Highlight(91, MAX_TEXT_LENGTH + 1, 9, 3),
     Highlight(91, 7, 0, 3), Highlight(91, 7, MAX_URL_LENGTH + 1, 3), Highlight(91, 7, 9, 0),
     Highlight(0, 0, 0, 0)}

\* files that mix records: possibly an invalid record, possibly the exported
\* record, possibly a foreign record with the longest text and url the filter
\* accepts, possibly an element that is no object
MixedFiles ==
    LET invalid == {<<>>} \cup {<<h>> : h \in InvalidRecords}
        exported == {<<>>} \cup {<<FileRecord(id)>> : id \in {1} \cap KnownIds}
        foreign == {<<>>} \cup {<<Highlight(id, MAX_TEXT_LENGTH, MAX_URL_LENGTH, 3)>> :
                                    id \in ForeignIds}
        last == {<<>>, <<Highlight(0, 0, 0, 0)>>}
    IN {a \o b \o c \o d : a \in invalid, b \in exported, c \in foreign, d \in last}

\* the urls of the pages a selection is saved from: short, and longer than
\* MAX_URL_LENGTH
PageUrlLengths == {PageUrlLength, MAX_URL_LENGTH + 1}

\* the saveHighlight messages the background receives: the objects pages
\* create, and malformed ones (no highlight, no text, no url)
SaveMessages ==
    {Highlight(nextId, textLen, urlLen, now) :
        textLen \in SelectionLengths, urlLen \in PageUrlLengths}
        \cup {Highlight(0, 0, 0, 0), Highlight(nextId, 0, PageUrlLength, now),
              Highlight(nextId, 5, 0, now)}

(***************************************************************************)
(* Pure list computations of the storage coordinator.                      *)
(***************************************************************************)
TruncateNone(list) == list

\* highlights.splice(MAX_HIGHLIGHTS) when the list is longer than the cap
Truncate(list) ==
    IF Len(list) > MAX_HIGHLIGHTS THEN SubSeq(list, 1, MAX_HIGHLIGHTS) ELSE list

\* saveHighlight body: default the timestamp, unshift, truncate
SaveStamp(h) ==
    IF h.timestamp = 0 THEN [h EXCEPT !.timestamp = now] ELSE h

SaveResultAppend(list, h) == Truncate(Append(list, h))

SaveResult(list, h) == Truncate(<<h>> \o list)

DeleteResultFirstOnly(list, id) ==
    IF \E k \in 1 .. Len(list) : list[k].id = id
    THEN LET k == CHOOSE k \in 1 .. Len(list) :
                     list[k].id = id /\ \A m \in 1 .. (k - 1) : list[m].id # id
         IN SubSeq(list, 1, k - 1) \o SubSeq(list, k + 1, Len(list))
    ELSE list

\* deleteHighlight body: highlights.filter((h) => h.id !== id)
DeleteResult(list, id) == SelectSeq(list, LAMBDA h : h.id # id)

ValidImportNoLengths(h) ==
    /\ h.id > 0
    /\ h.text > 0
    /\ h.url > 0
    /\ h.timestamp > 0

\* importHighlights: the validation filter
ValidImport(h) ==
    /\ h.id > 0
    /\ h.text > 0
    /\ h.text <= MAX_TEXT_LENGTH
    /\ h.url > 0
    /\ h.url <= MAX_URL_LENGTH
    /\ h.timestamp > 0

validHighlights(incoming) == SelectSeq(incoming, ValidImport)

newHighlightsAll(existing, valid) == valid

\* importHighlights, merge branch: the incoming records whose id is not stored
newHighlights(existing, valid) ==
    LET existingIds == {existing[k].id : k \in 1 .. Len(existing)}
    IN SelectSeq(valid, LAMBDA h : h.id \notin existingIds)

MergeResult(existing, valid) == Truncate(newHighlights(existing, valid) \o existing)

ReplaceResultTail(valid) == IF valid = <<>> THEN valid ELSE Tail(valid)

\* importHighlights, replace branch: the validated set is stored as it is
ReplaceResult(valid) == valid

(***************************************************************************)
(* The storage lock and the mutating operations.                           *)
(***************************************************************************)
NoList == <<>>

\* what importHighlights returns; the replace branch returns no skippedDuplicates
ImportResult(imported, skippedDuplicates, skippedInvalid) ==
    [imported |-> imported, skippedDuplicates |-> skippedDuplicates,
     skippedInvalid |-> skippedInvalid]

NoResult == ImportResult(0, 0, 0)

\* the open tabs chrome.tabs.query reports: one whose content script listens,
\* one without a content script (sendMessage rejects), one without an id
Tabs == {"listening", "noContentScript", "noId"}

\* _withStorageLock: take the tail of the chain as previous, install a new tail
Enqueue(kind, arg, merge, incoming) ==
    /\ Len(ops) + Len(errors) < MaxOps
    /\ LET newLock == Len(ops) + 1
       IN /\ ops' = Append(ops, [kind |-> kind, arg |-> arg, merge |-> merge,
                                 previous |-> storageLock, newLock |-> newLock,
                                 overlap |-> {i \in 1 .. Len(ops) : ops[i].pc # "done"},
                                 incoming |-> incoming,
                                 skipped |-> IF kind = "import"
                                             THEN Len(incoming) - Len(arg) ELSE 0,
                                 pc |-> "queued", before |-> NoList,
                                 written |-> NoList, result |-> NoResult])
          /\ storageLock' = newLock
    /\ UNCHANGED <<highlights, released, completed, getResult, getAt, errors, sentTo>>

\* the handler throws before the lock is taken: handleMessage reports the
\* error to the caller
Reject(message) ==
    /\ Len(ops) + Len(errors) < MaxOps
    /\ errors' = Append(errors, message)
    /\ UNCHANGED <<highlights, storageLock, released, ops, completed, getResult, getAt,
                   sentTo>>

\* a missing highlight object; like one whose text and url are missing
NoHighlight == Highlight(0, 0, 0, 0)

InvalidSaveTextOnly(highlight) == highlight.text = 0

\* saveHighlight: !highlight || !highlight.text || !highlight.url
InvalidSave(highlight) ==
    highlight = NoHighlight \/ highlight.text = 0 \/ highlight.url = 0

\* BackgroundService.saveHighlight(highlight)
saveHighlight(highlight) ==
    IF InvalidSave(highlight)
    THEN Reject("Invalid highlight data: missing required fields")
    ELSE Enqueue("save", highlight, FALSE, <<>>)

\* BackgroundService.deleteHighlight(id)
deleteHighlight(id) ==
    IF id = 0
    THEN Reject("Highlight ID is required")
    ELSE Enqueue("delete", id, FALSE, <<>>)

\* BackgroundService.importHighlights(importData, merge): the filter runs
\* before the lock is taken
importHighlights(incoming, merge) ==
    Enqueue("import", validHighlights(incoming), merge, incoming)

\* a page saves the selection it holds
SaveHighlight ==
    /\ \E textLen \in SelectionLengths : saveHighlight(createHighlightObject(textLen))
    /\ nextId' = nextId + 1
    /\ UNCHANGED <<rateVars, sumVars, tripVars, contentVars>>

\* the popup deletes a record
DeleteHighlight ==
    /\ \E id \in KnownIds : deleteHighlight(id)
    /\ UNCHANGED <<nextId, rateVars, sumVars, tripVars, contentVars>>

\* clearAllHighlights()
ClearAllHighlights ==
    /\ Enqueue("clear", 0, FALSE, <<>>)
    /\ UNCHANGED <<nextId, rateVars, sumVars, tripVars, contentVars>>

\* the popup imports a file.  One file is imported in a behaviour.
ImportHighlights ==
    /\ \A i \in 1 .. Len(ops) : ops[i].kind # "import"
    /\ \E incoming \in ImportFiles, merge \in BOOLEAN : importHighlights(incoming, merge)
    /\ UNCHANGED <<nextId, rateVars, sumVars, tripVars, contentVars>>

CanStartNoWait(i) == TRUE

\* previous.then(() => fn()): the body runs once the previous lock is released
CanStart(i) == ops[i].previous \in released

\* the list the body of op computes from the list it read; clear and
\* replace-import write without reading
NewList(op, list) ==
    CASE op.kind = "save" -> SaveResult(list, SaveStamp(op.arg))
      [] op.kind = "delete" -> DeleteResult(list, op.arg)
      [] op.kind = "clear" -> <<>>
      [] op.kind = "import" ->
            IF op.merge THEN MergeResult(list, op.arg) ELSE ReplaceResult(op.arg)

\* the value the body of an import returns, from the list it read
Returned(op, list) ==
    IF op.kind # "import" THEN NoResult
    ELSE IF op.merge
    THEN ImportResult(Len(newHighlights(list, op.arg)),
                      Len(op.arg) - Len(newHighlights(list, op.arg)),
                      op.skipped)
    ELSE ImportResult(Len(op.arg), "undefined", op.skipped)

\* the body of operation i runs up to its chrome.storage.local.set: the
\* store is read (chrome.storage.local.get), the new list is computed and the
\* write is issued
StartBody(i) ==
    /\ ops[i].pc = "queued"
    /\ CanStart(i)
    /\ ops' = [ops EXCEPT ![i].before = highlights,
                          ![i].written = NewList(ops[i], highlights),
                          ![i].pc = "writing"]
    /\ UNCHANGED <<highlights, storageLock, released, completed, nextId, getResult, getAt>>
    /\ UNCHANGED <<errors, sentTo, rateVars, sumVars, tripVars, contentVars>>

notifyNoTab(sent) == sent

\* notifyTabsAboutUpdate: a highlightsUpdated message is sent to every tab
\* that has an id; a rejected sendMessage is caught
notifyTabsAboutUpdate(sent) ==
    [tab \in Tabs |-> IF tab = "noId" THEN sent[tab] ELSE sent[tab] + 1]

\* chrome.storage.local.set resolves: the list is persisted, the tabs are
\* notified, the operation's promise settles and finally(release) resolves
\* its lock
StorageSet(i) ==
    /\ ops[i].pc = "writing"
    /\ highlights' = ops[i].written
    /\ released' = released \cup {ops[i].newLock}
    /\ ops' = [ops EXCEPT ![i].pc = "done",
                          ![i].result = Returned(ops[i], ops[i].before)]
    /\ completed' = Append(completed, i)
    /\ sentTo' = notifyTabsAboutUpdate(sentTo)
    /\ UNCHANGED <<storageLock, nextId, getResult, getAt, errors>>
    /\ UNCHANGED <<rateVars, sumVars, tripVars, contentVars>>

\* getHighlights(): a plain read, outside the lock
GetHighlights ==
    /\ getResult' = highlights
    /\ getAt' = Len(completed)
    /\ UNCHANGED <<highlights, storageLock, released, ops, completed, nextId>>
    /\ UNCHANGED <<errors, sentTo>>
    /\ UNCHANGED <<rateVars, sumVars, tripVars, contentVars>>

StorageInit ==
    /\ highlights = <<>>
    /\ storageLock = 0
    /\ released = {0}
    /\ ops = <<>>
    /\ completed = <<>>
    /\ nextId = 1
    /\ getResult = <<>>
    /\ getAt = 0
    /\ errors = <<>>
    /\ sentTo = [tab \in Tabs |-> 0]

RateInit ==
    /\ now = 1
    /\ apiCallTimestamps = <<>>
    /\ admitted = <<>>
    /\ rateOutcome = [ok |-> TRUE, waitTime |-> 0, at |-> 0]
    /\ lastRejectAt = 0

SumInit ==
    /\ summaryCache = <<>>
    /\ aiConfigured \in BOOLEAN
    /\ pageSummaryCache = [p \in Pages |-> [k \in Keys |-> NoEntry]]
    /\ apiRequestQueue = [p \in Pages |-> [k \in Keys |-> 0]]
    /\ calls = <<>>
    /\ requests = <<>>

\* no message of StorageUtils is in flight
TripInit == trips = <<>>

\* HighlightSaver constructor: no selection, nothing marked
PageInit ==
    /\ pendingHighlight = 0
    /\ selections = 0
    /\ pageSaves = <<>>
    /\ markers = <<>>

\* a text node: its identity, its text (a sequence of characters) and the
\* highlight spans it lies in
TextNode(nid, text, path) == [nid |-> nid, text |-> text, path |-> path]

\* the page of the mark passes: two text nodes
PageDom == <<TextNode(1, <<"a", "b", " ", "c", "d">>, <<>>), TextNode(2, <<"c", "d">>, <<>>)>>

RECURSIVE textContent(_)
textContent(d) == IF d = <<>> THEN <<>> ELSE Head(d).text \o textContent(Tail(d))

\* the document holds the nodes d, nothing is cached and no pass has run
DomInit(d) ==
    /\ dom = d
    /\ nextNode = Len(d) + 1
    /\ pageText = textContent(d)
    /\ textNodeCache = <<>>
    /\ savedHighlightsData = <<>>
    /\ passes = <<>>

\* the value that stands for an absent position or surrounding text
NoPosition == <<>>

\* a lookup: the positions (top, left) of the saved text in the candidate
\* nodes, the words around it in each node, the length of each node's
\* content, and the stored position and surrounding words
LocateCase(positions, contexts, lengths, textPosition, surroundingText) ==
    [positions |-> positions, contexts |-> contexts, lengths |-> lengths,
     textPosition |-> textPosition, surroundingText |-> surroundingText]

NoCase == LocateCase(<<>>, <<>>, <<>>, NoPosition, <<>>)

\* no lookup is made
LocateInit ==
    /\ locateCase = NoCase
    /\ located = [best |-> 0, scroll |-> 0]

\* no cache of the page was read or swept
NoRead == [cache |-> "none"]

CacheInit ==
    /\ pageSummaries = <<>>
    /\ cacheRead = NoRead
    /\ lastSweep = <<>>

\* no key was generated and no range looked for
FnInit ==
    /\ keyCase = <<>>
    /\ rangeCase = <<>>

ContentInit == PageInit /\ DomInit(PageDom) /\ LocateInit /\ CacheInit /\ FnInit

Init == StorageInit /\ RateInit /\ SumInit /\ TripInit /\ ContentInit

\* the initial states in which the summarization service is configured
InitConfigured == Init /\ aiConfigured

Next ==
    \/ SaveHighlight
    \/ DeleteHighlight
    \/ ClearAllHighlights
    \/ ImportHighlights
    \/ \E i \in 1 .. Len(ops) : StartBody(i)
    \/ \E i \in 1 .. Len(ops) : StorageSet(i)
    \/ GetHighlights

Spec == InitConfigured /\ [][Next]_vars

\* The storage operations invoked one at a time, each once the previous one
\* has completed, with every kind of record and message.
Idle == \A i \in 1 .. Len(ops) : ops[i].pc = "done"

SaveMessage ==
    /\ Idle
    /\ \E highlight \in SaveMessages : saveHighlight(highlight)
    /\ nextId' = nextId + 1
    /\ UNCHANGED <<rateVars, sumVars, tripVars, contentVars>>

DeleteMessage ==
    /\ Idle
    /\ \E id \in KnownIds \cup {0} : deleteHighlight(id)
    /\ UNCHANGED <<nextId, rateVars, sumVars, tripVars, contentVars>>

ImportMessage ==
    /\ Idle
    /\ \A i \in 1 .. Len(ops) : ops[i].kind # "import"
    /\ \E incoming \in MixedFiles, merge \in BOOLEAN : importHighlights(incoming, merge)
    /\ UNCHANGED <<nextId, rateVars, sumVars, tripVars, contentVars>>

\* the popup exports the collection (exportHighlights returns the persisted
\* list) and imports the exported file in replace mode
RestoreMessage ==
    /\ Idle
    /\ highlights # <<>>
    /\ importHighlights(highlights, FALSE)
    /\ UNCHANGED <<nextId, rateVars, sumVars, tripVars, contentVars>>

NextSeq ==
    \/ SaveMessage
    \/ DeleteMessage
    \/ ImportMessage
    \/ RestoreMessage
    \/ \E i \in 1 .. Len(ops) : StartBody(i)
    \/ \E i \in 1 .. Len(ops) : StorageSet(i)
    \/ GetHighlights

SpecSeq == InitConfigured /\ [][NextSeq]_vars

(***************************************************************************)
(* The sliding-window rate limiter.                                        *)
(***************************************************************************)
\* the amounts by which the clock advances between two events
TickSteps == {20000, 29999, 30000}

Tick ==
    /\ \E d \in TickSteps :
          /\ now + d <= MaxTime
          /\ now' = now + d
    /\ UNCHANGED <<apiCallTimestamps, admitted, rateOutcome, lastRejectAt>>
    /\ UNCHANGED <<storageVars, sumVars, tripVars, contentVars>>

InWindowInclusive(t) == now - t <= RATE_LIMIT_WINDOW

\* the filter of _checkRateLimit: (t) => now - t < RATE_LIMIT_WINDOW
InWindow(t) == now - t < RATE_LIMIT_WINDOW

\* Math.floor in place of Math.ceil
FloorSeconds(ms) == ms \div 1000

\* Math.ceil(ms / 1000) for ms >= 0
CeilSeconds(ms) == (ms + 999) \div 1000

\* _checkRateLimit(): prune, then throw or record the call
checkRateLimit ==
    LET pruned == SelectSeq(apiCallTimestamps, InWindow)
    IN IF Len(pruned) >= RATE_LIMIT_MAX
       THEN /\ apiCallTimestamps' = pruned
            /\ rateOutcome' = [ok |-> FALSE,
                               waitTime |-> CeilSeconds(RATE_LIMIT_WINDOW - (now - pruned[1])),
                               at |-> now]
            /\ lastRejectAt' = now
            /\ UNCHANGED admitted
       ELSE /\ apiCallTimestamps' = Append(pruned, now)
            /\ admitted' = Append(admitted, now)
            /\ rateOutcome' = [ok |-> TRUE, waitTime |-> 0, at |-> now]
            /\ UNCHANGED lastRejectAt

\* a caller runs the rate-limit check
RateCheckCall ==
    /\ Len(admitted) < MaxAdmitted
    /\ checkRateLimit
    /\ UNCHANGED now
    /\ UNCHANGED <<storageVars, sumVars, tripVars, contentVars>>

NextRate ==
    \/ Tick
    \/ RateCheckCall

SpecRate == InitConfigured /\ [][NextRate]_vars

\* the calls admitted less than one window before time t
AdmittedInWindowAt(t) ==
    {i \in 1 .. Len(admitted) : admitted[i] <= t /\ t - admitted[i] < RATE_LIMIT_WINDOW}

\* C6: at most RATE_LIMIT_MAX calls are admitted in any window of
\* RATE_LIMIT_WINDOW ms; a call is rejected only when RATE_LIMIT_MAX calls
\* were admitted less than one window before it, and a call that finds fewer
\* (the oldest has left the window) is admitted.
C6_SlidingWindow ==
    /\ \A i \in 1 .. Len(admitted) :
          i + RATE_LIMIT_MAX <= Len(admitted)
          => admitted[i + RATE_LIMIT_MAX] - admitted[i] >= RATE_LIMIT_WINDOW
    /\ ~rateOutcome.ok
          => Cardinality(AdmittedInWindowAt(rateOutcome.at)) = RATE_LIMIT_MAX
    /\ (rateOutcome.ok /\ Len(admitted) > 0)
          => /\ admitted[Len(admitted)] = rateOutcome.at
             /\ Cardinality(AdmittedInWindowAt(rateOutcome.at)) <= RATE_LIMIT_MAX

\* five calls were admitted, a sixth was rejected inside their window, and a
\* call made exactly one window after the oldest of them was admitted
C6_Witness ==
    /\ Len(admitted) = RATE_LIMIT_MAX + 1
    /\ rateOutcome.ok
    /\ lastRejectAt > 0
    /\ lastRejectAt - admitted[1] < RATE_LIMIT_WINDOW
    /\ admitted[RATE_LIMIT_MAX + 1] - admitted[1] = RATE_LIMIT_WINDOW

(***************************************************************************)
(* Summarization: AIUtils.summarizeHighlight in a page context, and        *)
(* BackgroundService.summarizeHighlight behind it.                         *)
(***************************************************************************)
Outcome(ok, value) == [ok |-> ok, value |-> value]
NoOutcome == [ok |-> FALSE, value |-> "none"]

PageCachedSummaryNoTtl(p, k) == pageSummaryCache[p][k].summary

\* CacheManager.getCachedSummary (page): the summary, or null for a miss
PageCachedSummary(p, k) ==
    LET cached == pageSummaryCache[p][k]
    IN IF cached # NoEntry /\ now - cached.timestamp < 300000
       THEN cached.summary ELSE NoSummary

NeverInProgress(p, k) == FALSE

\* CacheManager.isApiRequestInProgress
isApiRequestInProgress(p, k) == apiRequestQueue[p][k] # 0

\* the calls that are awaiting the promise of request r
Awaiting(r) == {c \in 1 .. Len(calls) : calls[c].pc = "awaiting" /\ calls[c].request = r}

PendingCalls == {c \in 1 .. Len(calls) : calls[c].pc = "awaiting"}

\* AIUtils.summarizeHighlight(highlight) in page p, up to its first await:
\* served from the page cache, or joined to the request in flight, or a new
\* request is sent to the background and registered
summarizeHighlight(p, k) ==
    /\ LET call == [page |-> p, key |-> k, pc |-> "done", request |-> 0,
                    outcome |-> NoOutcome, pendingAtCall |-> PendingCalls]
       IN IF PageCachedSummary(p, k) # NoSummary
          THEN /\ calls' = Append(calls, [call EXCEPT
                                  !.outcome = Outcome(TRUE, PageCachedSummary(p, k))])
               /\ UNCHANGED <<requests, apiRequestQueue>>
          ELSE IF isApiRequestInProgress(p, k)
          THEN /\ calls' = Append(calls, [call EXCEPT !.pc = "awaiting",
                                                      !.request = apiRequestQueue[p][k]])
               /\ UNCHANGED <<requests, apiRequestQueue>>
          ELSE LET r == Len(requests) + 1
               IN /\ requests' = Append(requests,
                        [page |-> p, key |-> k, sentAt |-> now, settled |-> FALSE,
                         bg |-> "cacheCheck", summary |-> NoSummary, newCache |-> <<>>,
                         response |-> NoOutcome,
                         stamped |-> 0, wrote |-> FALSE, pageCached |-> FALSE])
                  /\ apiRequestQueue' = [apiRequestQueue EXCEPT ![p][k] = r]
                  /\ calls' = Append(calls, [call EXCEPT !.pc = "awaiting", !.request = r])
    /\ UNCHANGED <<summaryCache, aiConfigured, pageSummaryCache>>
    /\ UNCHANGED <<storageVars, rateVars, tripVars, contentVars>>

\* a page calls summarizeHighlight for a selection
Summarize(p, k) ==
    /\ Len(calls) < MaxCalls
    /\ summarizeHighlight(p, k)

CacheableAlways(o) == TRUE

\* the caller caches what its await of the request promise returns; a
\* rejection skips cacheSummary
Cacheable(o) == o.ok

\* the promise of request r settles with outcome o: the caller that sent it
\* caches a summary and removes the registry entry; every call awaiting the
\* promise returns or throws o
Settle(r, o) ==
    LET p == requests[r].page
        k == requests[r].key
    IN /\ requests' = [requests EXCEPT ![r].settled = TRUE, ![r].sentAt = 0,
                                        ![r].response = NoOutcome,
                                        ![r].pageCached = Cacheable(o)]
       /\ calls' = [c \in 1 .. Len(calls) |->
                       IF c \in Awaiting(r)
                       THEN [calls[c] EXCEPT !.pc = "done", !.outcome = o]
                       ELSE calls[c]]
       /\ pageSummaryCache' =
              IF Cacheable(o)
              THEN [pageSummaryCache EXCEPT ![p][k] = [summary |-> o.value, timestamp |-> now']]
              ELSE pageSummaryCache
       /\ apiRequestQueue' = [apiRequestQueue EXCEPT ![p][k] = 0]

\* the response callback of chrome.runtime.sendMessage fires in the page
ResponseArrives(r) ==
    /\ ~requests[r].settled
    /\ requests[r].bg = "responded"
    /\ UNCHANGED <<storageVars, rateVars, tripVars, contentVars>>
    /\ Settle(r, requests[r].response)
    /\ UNCHANGED <<summaryCache, aiConfigured>>

\* the timer of sendMessageToBackground fires before a response arrived: by
\* then SUMMARIZE_TIMEOUT ms have passed since the message was sent
ResponseTimeout(r) ==
    /\ ~requests[r].settled
    /\ now' = IF now - requests[r].sentAt >= SUMMARIZE_TIMEOUT
              THEN now ELSE requests[r].sentAt + SUMMARIZE_TIMEOUT
    /\ Settle(r, Outcome(FALSE, "Background script response timeout"))
    /\ UNCHANGED <<summaryCache, aiConfigured>>
    /\ UNCHANGED <<apiCallTimestamps, admitted, rateOutcome, lastRejectAt>>
    /\ UNCHANGED <<storageVars, tripVars, contentVars>>

\* sendResponse(o); the callback of a promise that is already settled (by the
\* timer) changes nothing
Respond(r, o) ==
    [requests EXCEPT ![r].bg = "responded",
                     ![r].response = IF requests[r].settled THEN NoOutcome ELSE o]

\* BackgroundService.getCachedSummary: the summary, or null
CachedSummary(k) ==
    IF \E n \in 1 .. Len(summaryCache) :
          /\ summaryCache[n].key = k
          /\ now - summaryCache[n].timestamp < SUMMARY_CACHE_TTL
    THEN LET n == CHOOSE n \in 1 .. Len(summaryCache) : summaryCache[n].key = k
         IN summaryCache[n].summary
    ELSE NoSummary

\* BackgroundService.summarizeHighlight: the cache read resolves; a hit is
\* returned, a miss goes through the rate limiter, then getConfig (which
\* reads only the configuration) throws or callOpenAI issues the fetch
BgCacheCheck(r) ==
    /\ requests[r].bg = "cacheCheck"
    /\ IF CachedSummary(requests[r].key) # NoSummary
       THEN /\ requests' = Respond(r, Outcome(TRUE, CachedSummary(requests[r].key)))
            /\ UNCHANGED <<apiCallTimestamps, admitted, rateOutcome, lastRejectAt>>
       ELSE /\ checkRateLimit
            /\ requests' = IF ~rateOutcome'.ok
                           THEN Respond(r, Outcome(FALSE, "Rate limit exceeded"))
                           ELSE IF ~aiConfigured
                           THEN [Respond(r, Outcome(FALSE, "Configuration error"))
                                    EXCEPT ![r].stamped =
                                        Len(apiCallTimestamps') - Len(SelectSeq(apiCallTimestamps, InWindow))]
                           ELSE [requests EXCEPT ![r].bg = "fetch",
                                    ![r].stamped =
                                        Len(apiCallTimestamps') - Len(SelectSeq(apiCallTimestamps, InWindow))]
    /\ UNCHANGED <<now, summaryCache, aiConfigured, pageSummaryCache, apiRequestQueue, calls>>
    /\ UNCHANGED <<storageVars, tripVars, contentVars>>

\* the text the summarization service answers request r with: no two
\* outbound calls get the same answer
Answer(r) == r

\* the fetch of callOpenAI answers with a usable summary
BgFetchOk(r) ==
    /\ requests[r].bg = "fetch"
    /\ requests' = [requests EXCEPT ![r].bg = "cacheRead", ![r].summary = Answer(r)]
    /\ UNCHANGED <<summaryCache, aiConfigured, pageSummaryCache, apiRequestQueue, calls>>
    /\ UNCHANGED <<storageVars, rateVars, tripVars, contentVars>>

\* the fetch fails, or its answer is not ok or has no content
BgFetchFails(r) ==
    /\ requests[r].bg = "fetch"
    /\ requests' = Respond(r, Outcome(FALSE, "Summarization service returned an error"))
    /\ UNCHANGED <<summaryCache, aiConfigured, pageSummaryCache, apiRequestQueue, calls>>
    /\ UNCHANGED <<storageVars, rateVars, tripVars, contentVars>>

\* the position of the entry cacheSummary's sort puts first: the oldest
\* timestamp, the earliest key among equals
Oldest(cache) ==
    CHOOSE n \in 1 .. Len(cache) :
        \A m \in 1 .. Len(cache) :
            \/ cache[n].timestamp < cache[m].timestamp
            \/ (cache[n].timestamp = cache[m].timestamp /\ n <= m)

RemoveAt(cache, n) == SubSeq(cache, 1, n - 1) \o SubSeq(cache, n + 1, Len(cache))

RECURSIVE EvictOldest(_, _)
EvictOldest(cache, count) ==
    IF count <= 0 \/ cache = <<>> THEN cache
    ELSE EvictOldest(RemoveAt(cache, Oldest(cache)), count - 1)

\* cache[cacheKey] = {summary, timestamp}: an existing key keeps its place
PutEntry(cache, k, summary) ==
    LET entry == [key |-> k, summary |-> summary, timestamp |-> now]
    IN IF \E n \in 1 .. Len(cache) : cache[n].key = k
       THEN [n \in 1 .. Len(cache) |-> IF cache[n].key = k THEN entry ELSE cache[n]]
       ELSE Append(cache, entry)

\* cacheSummary: the cache read resolves; the entry is put into the copy
BgCacheRead(r) ==
    /\ requests[r].bg = "cacheRead"
    /\ LET cache == IF Len(summaryCache) >= MAX_SUMMARY_CACHE
                    THEN EvictOldest(summaryCache,
                                     Len(summaryCache) - (MAX_SUMMARY_CACHE - 1))
                    ELSE summaryCache
       IN requests' = [requests EXCEPT
              ![r].bg = "cacheWrite",
              ![r].newCache = PutEntry(cache, requests[r].key, requests[r].summary)]
    /\ UNCHANGED <<summaryCache, aiConfigured, pageSummaryCache, apiRequestQueue, calls>>
    /\ UNCHANGED <<storageVars, rateVars, tripVars, contentVars>>

\* cacheSummary: the cache write resolves; the summary is returned
BgCacheWrite(r) ==
    /\ requests[r].bg = "cacheWrite"
    /\ summaryCache' = requests[r].newCache
    /\ requests' = [Respond(r, Outcome(TRUE, requests[r].summary)) EXCEPT
                        ![r].newCache = <<>>, ![r].summary = NoSummary,
                        ![r].wrote = TRUE]
    /\ UNCHANGED <<aiConfigured, pageSummaryCache, apiRequestQueue, calls>>
    /\ UNCHANGED <<storageVars, rateVars, tripVars, contentVars>>

NextSum ==
    \/ \E sel \in Selections : Summarize(sel[1], sel[2])
    \/ \E r \in 1 .. Len(requests) : ResponseArrives(r)
    \/ \E r \in 1 .. Len(requests) : ResponseTimeout(r)
    \/ \E r \in 1 .. Len(requests) : BgCacheCheck(r)
    \/ \E r \in 1 .. Len(requests) : BgFetchOk(r)
    \/ \E r \in 1 .. Len(requests) : BgFetchFails(r)
    \/ \E r \in 1 .. Len(requests) : BgCacheRead(r)
    \/ \E r \in 1 .. Len(requests) : BgCacheWrite(r)

\* the service worker has admitted no call yet, or RATE_LIMIT_MAX calls just now
InitSum ==
    /\ StorageInit
    /\ SumInit
    /\ TripInit
    /\ ContentInit
    /\ now = 1
    /\ apiCallTimestamps \in IF aiConfigured
                             THEN {<<>>, [i \in 1 .. RATE_LIMIT_MAX |-> 1]}
                             ELSE {<<>>}
    /\ admitted = apiCallTimestamps
    /\ rateOutcome = [ok |-> TRUE, waitTime |-> 0, at |-> 0]
    /\ lastRejectAt = 0

SpecSum == InitSum /\ [][NextSum]_vars

\* The summarization path used by one caller at a time, over a time span
\* longer than the TTL of the caches.
MaxSumTime == 2 * SUMMARY_CACHE_TTL + 1

\* no request is on its way
Quiet == \A r \in 1 .. Len(requests) : requests[r].settled /\ requests[r].bg = "responded"

\* time passes while nothing is going on: just less than the TTL, or the TTL
TtlTick ==
    /\ Quiet
    /\ \E d \in {SUMMARY_CACHE_TTL - 1, SUMMARY_CACHE_TTL} :
          /\ now + d <= MaxSumTime
          /\ now' = now + d
    /\ UNCHANGED <<apiCallTimestamps, admitted, rateOutcome, lastRejectAt>>
    /\ UNCHANGED <<storageVars, sumVars, tripVars, contentVars>>

SummarizeQuiet ==
    /\ Quiet
    /\ Len(calls) < MaxCalls + 1
    /\ \E sel \in Selections : summarizeHighlight(sel[1], sel[2])

NextTtl ==
    \/ SummarizeQuiet
    \/ TtlTick
    \/ \E r \in 1 .. Len(requests) : ResponseArrives(r)
    \/ \E r \in 1 .. Len(requests) : BgCacheCheck(r)
    \/ \E r \in 1 .. Len(requests) : BgFetchOk(r)
    \/ \E r \in 1 .. Len(requests) : BgFetchFails(r)
    \/ \E r \in 1 .. Len(requests) : BgCacheRead(r)
    \/ \E r \in 1 .. Len(requests) : BgCacheWrite(r)

SpecTtl == InitConfigured /\ [][NextTtl]_vars

C5_OneLiveCallPerKey ==
    \A k \in Keys :
        Cardinality({r \in 1 .. Len(requests) :
                        requests[r].key = k /\ requests[r].bg = "fetch"}) <= 1

(***************************************************************************)
(* Properties of the storage coordinator (specification Spec).             *)
(***************************************************************************)
Contains(list, h) == \E k \in 1 .. Len(list) : list[k] = h

CountId(list, id) == Cardinality({k \in 1 .. Len(list) : list[k].id = id})

Pos(i) == CHOOSE p \in 1 .. Len(completed) : completed[p] = i

IsDone(i) == ops[i].pc = "done"

LastCompleted == completed[Len(completed)]

\* the first n operations applied one after another, in call order, to the
\* initial (empty) list
RECURSIVE ApplyInOrder(_)
ApplyInOrder(n) == IF n = 0 THEN <<>> ELSE NewList(ops[n], ApplyInOrder(n - 1))

\* every operation completed since position p of the completion order is a save
OnlySavesSince(p) == \A q \in p .. Len(completed) : ops[completed[q]].kind = "save"

\* C1: two saves with distinct ids that were both invoked before either
\* completed are both in the persisted list once both have completed (as long
\* as only saves completed since, and no more of them than the cap holds).
C1_NoLostUpdate ==
    \A i, j \in 1 .. Len(ops) :
        (/\ i < j
         /\ ops[i].kind = "save" /\ ops[j].kind = "save"
         /\ ops[i].arg.id # ops[j].arg.id
         /\ i \in ops[j].overlap
         /\ IsDone(i) /\ IsDone(j)
         /\ LET p == IF Pos(i) < Pos(j) THEN Pos(i) ELSE Pos(j)
            IN /\ OnlySavesSince(p)
               /\ Len(completed) - p + 1 <= MAX_HIGHLIGHTS)
        => /\ Contains(highlights, ops[i].arg)
           /\ Contains(highlights, ops[j].arg)

\* two overlapping saves have both completed and the list holds both
C1_Witness ==
    /\ Len(completed) = 2
    /\ ops[1].kind = "save" /\ ops[2].kind = "save"
    /\ 1 \in ops[2].overlap
    /\ Len(highlights) = 2

InBody(i) == ops[i].pc = "writing"

\* C2: at most one mutating operation is inside its read-modify-write body.
C2_MutualExclusion ==
    Cardinality({i \in 1 .. Len(ops) : InBody(i)}) <= 1

\* one operation is between its read and its write while two others wait
C2_Witness ==
    \E i \in 1 .. Len(ops) :
        /\ ops[i].pc = "writing"
        /\ ops[i].kind = "save"
        /\ Cardinality({j \in 1 .. Len(ops) : ops[j].pc = "queued"}) = 2

\* C3: operations complete in call order, and the persisted list is the
\* result of applying the completed operations one after another in call order.
C3_CallOrder ==
    /\ \A p \in 1 .. Len(completed) : completed[p] = p
    /\ highlights = ApplyInOrder(Len(completed))

\* three operations of different kinds, all invoked before the first
\* completed, have all completed
C3_Witness ==
    /\ Len(completed) = 3
    /\ ops[3].overlap = {1, 2}
    /\ ops[1].kind = "import" /\ ops[2].kind = "save" /\ ops[3].kind = "delete"
    /\ highlights # <<>>

\* a getHighlights that read the store right after operation i completed
ReadAfter(i) ==
    /\ Len(completed) > 0
    /\ getAt = Len(completed)
    /\ LastCompleted = i

C8_SaveAtCapacity ==
    \A i \in 1 .. Len(ops) :
        (/\ ops[i].kind = "save" /\ IsDone(i) /\ LastCompleted = i
         /\ Len(ops[i].before) = MAX_HIGHLIGHTS)
        => /\ Len(highlights) = MAX_HIGHLIGHTS
           /\ highlights[1] = ops[i].arg
           /\ \A k \in 2 .. MAX_HIGHLIGHTS : highlights[k] = ops[i].before[k - 1]

\* a save has completed on a full list
C8_Witness ==
    \E i \in 1 .. Len(ops) :
        /\ ops[i].kind = "save" /\ IsDone(i) /\ LastCompleted = i
        /\ Len(ops[i].before) = MAX_HIGHLIGHTS

\* C9: the persisted list never holds more than MAX_HIGHLIGHTS records.
C9_CapacityBound == Len(highlights) <= MAX_HIGHLIGHTS

RECURSIVE Without(_, _)
Without(list, id) ==
    IF list = <<>> THEN <<>>
    ELSE IF Head(list).id = id THEN Without(Tail(list), id)
    ELSE <<Head(list)>> \o Without(Tail(list), id)

\* C10: after deleteHighlight(id) completes, getHighlights returns no record
\* with that id and all other records in their original order; when the id
\* was not in the list, the list is what it was.
C10_DeleteRemovesOnlyId ==
    \A i \in 1 .. Len(ops) :
        (ops[i].kind = "delete" /\ ReadAfter(i))
        => /\ CountId(getResult, ops[i].arg) = 0
           /\ getResult = Without(ops[i].before, ops[i].arg)
           /\ (CountId(ops[i].before, ops[i].arg) = 0 => getResult = ops[i].before)

\* a getHighlights after a delete that removed a record and kept another
C10_Witness ==
    \E i \in 1 .. Len(ops) :
        /\ ops[i].kind = "delete" /\ ReadAfter(i)
        /\ CountId(ops[i].before, ops[i].arg) > 0
        /\ Len(getResult) > 0

\* a getHighlights after the delete of an id that was not stored
C10_WitnessAbsent ==
    \E i \in 1 .. Len(ops) :
        /\ ops[i].kind = "delete" /\ ReadAfter(i)
        /\ CountId(ops[i].before, ops[i].arg) = 0
        /\ Len(getResult) > 0
\* the records of incoming whose id no record of existing has, in their order
RECURSIVE NotStored(_, _)
NotStored(incoming, existing) ==
    IF incoming = <<>> THEN <<>>
    ELSE IF CountId(existing, Head(incoming).id) > 0
    THEN NotStored(Tail(incoming), existing)
    ELSE <<Head(incoming)>> \o NotStored(Tail(incoming), existing)

\* the first n elements of list, or all of it
FirstN(list, n) == [k \in 1 .. (IF Len(list) < n THEN Len(list) ELSE n) |-> list[k]]

\* C11: a merge-import stores the incoming valid records whose id is not
\* stored yet, in their order, followed by the existing records unchanged,
\* cut to the cap from the tail; it returns the number of records it
\* prepended as imported and the number of valid records it dropped for an id
\* collision as skippedDuplicates.
C11_MergeImport ==
    \A i \in 1 .. Len(ops) :
        (/\ ops[i].kind = "import" /\ ops[i].merge
         /\ IsDone(i) /\ LastCompleted = i)
        => LET prepended == NotStored(ops[i].arg, ops[i].before)
           IN /\ highlights = FirstN(prepended \o ops[i].before, MAX_HIGHLIGHTS)
              /\ ops[i].result.imported = Len(prepended)
              /\ ops[i].result.skippedDuplicates = Len(ops[i].arg) - Len(prepended)

\* a merge-import of a stored id and a new id onto a stored record has
\* completed: one imported, one skipped, the stored record unchanged
C11_Witness ==
    \E i \in 1 .. Len(ops) :
        /\ ops[i].kind = "import" /\ ops[i].merge
        /\ IsDone(i) /\ LastCompleted = i
        /\ Len(ops[i].before) = 1
        /\ ops[i].result.imported = 1
        /\ ops[i].result.skippedDuplicates = 1
        /\ highlights[2] = ops[i].before[1]
(***************************************************************************)
(* Properties of the records (specification SpecSeq).                      *)
(***************************************************************************)
\* a record with a non-empty id, a non-empty text of at most 1000 characters,
\* a non-empty url of at most 500 characters and a positive timestamp
WellFormed(h) ==
    /\ h.id # 0
    /\ h.text >= 1 /\ h.text <= 1000
    /\ h.url >= 1 /\ h.url <= 500
    /\ h.timestamp >= 1

\* C12: after a replace-import completes, getHighlights returns exactly the
\* well-formed incoming records in their incoming order, and no record that
\* was stored before and is not in the file.
C12_ReplaceImport ==
    \A i \in 1 .. Len(ops) :
        (ops[i].kind = "import" /\ ~ops[i].merge /\ ReadAfter(i))
        => /\ getResult = SelectSeq(ops[i].incoming, WellFormed)
           /\ \A k \in 1 .. Len(ops[i].before) :
                 Contains(getResult, ops[i].before[k])
                 => Contains(ops[i].incoming, ops[i].before[k])

\* a getHighlights after a replace-import of a file with an invalid and a
\* valid record over a stored record
C12_Witness ==
    \E i \in 1 .. Len(ops) :
        /\ ops[i].kind = "import" /\ ~ops[i].merge /\ ReadAfter(i)
        /\ Len(ops[i].before) > 0
        /\ Len(getResult) > 0
        /\ Len(getResult) < Len(ops[i].incoming)
        /\ ~Contains(getResult, ops[i].before[1])

CountWellFormed(list) == Len(SelectSeq(list, WellFormed))

\* no invalid record of the file of import i is in the persisted list
NoInvalidStored(i) ==
    \A k \in 1 .. Len(ops[i].incoming) :
        ~WellFormed(ops[i].incoming[k]) => ~Contains(highlights, ops[i].incoming[k])

\* C13 as stated: every import returns imported = the number of valid
\* records of the file and skippedInvalid = the number of invalid ones, and
\* stores no invalid record.
C13_ImportCounts ==
    \A i \in 1 .. Len(ops) :
        (ops[i].kind = "import" /\ IsDone(i) /\ LastCompleted = i)
        => /\ ops[i].result.imported = CountWellFormed(ops[i].incoming)
           /\ ops[i].result.skippedInvalid
                 = Len(ops[i].incoming) - CountWellFormed(ops[i].incoming)
           /\ NoInvalidStored(i)

\* C13, amended: every import returns skippedInvalid = the number of invalid
\* records of the file and stores no invalid record; a replace-import returns
\* imported = the number of valid records, a merge-import the number of valid
\* records whose id was not stored yet.
C13_ImportCountsAmended ==
    \A i \in 1 .. Len(ops) :
        (ops[i].kind = "import" /\ IsDone(i) /\ LastCompleted = i)
        => LET valid == SelectSeq(ops[i].incoming, WellFormed)
           IN /\ ops[i].result.imported
                    = IF ops[i].merge THEN Len(NotStored(valid, ops[i].before))
                      ELSE Len(valid)
              /\ ops[i].result.skippedInvalid = Len(ops[i].incoming) - Len(valid)
              /\ NoInvalidStored(i)

\* a merge-import of a file with an invalid record, a record whose id is
\* stored and a new record has completed
C13_Witness ==
    \E i \in 1 .. Len(ops) :
        /\ ops[i].kind = "import" /\ ops[i].merge
        /\ IsDone(i) /\ LastCompleted = i
        /\ ops[i].result.skippedInvalid > 0
        /\ ops[i].result.skippedDuplicates > 0
        /\ ops[i].result.imported > 0
\* C14: every record of the persisted list has a non-empty id, a non-empty
\* text of at most 1000 characters, a non-empty url of at most 500 characters
\* and a positive timestamp.
C14_StoredRecordsWellFormed ==
    \A k \in 1 .. Len(highlights) : WellFormed(highlights[k])
\* C15: no two records of the persisted list share an id.
C15_IdIsPrimaryKey ==
    \A k, m \in 1 .. Len(highlights) :
        k # m => highlights[k].id # highlights[m].id
\* the call of operation op passed the validation of its handler
PassedValidation(op) ==
    /\ op.kind = "save" => (op.arg.text # 0 /\ op.arg.url # 0)
    /\ op.kind = "delete" => op.arg # 0

\* C18: a save without a highlight, text or url and a delete without an id
\* never take the storage lock; the step that reports the error to the
\* caller leaves the persisted list, the lock and the operations as they
\* are and notifies no tab.
C18_RejectedCalls ==
    /\ [](\A i \in 1 .. Len(ops) : PassedValidation(ops[i]))
    /\ [][Len(errors') > Len(errors)
            => UNCHANGED <<highlights, storageLock, released, ops, completed, sentTo>>]_vars

\* a save and a delete were rejected while a record was stored
C18_Witness ==
    /\ Len(highlights) > 0
    /\ \E k, m \in 1 .. Len(errors) :
          /\ errors[k] = "Invalid highlight data: missing required fields"
          /\ errors[m] = "Highlight ID is required"

\* C19: every completed mutating operation was followed by one
\* highlightsUpdated message to every tab that has an id, whether the tab can
\* receive it or not; the messages are sent in the step in which the
\* operation's write takes effect, and they report no error.
C19_TabsNotified ==
    /\ [](/\ sentTo["listening"] = Len(completed)
          /\ sentTo["noContentScript"] = Len(completed))
    /\ [][sentTo' # sentTo
            => /\ \E i \in 1 .. Len(ops) :
                     /\ ops[i].pc = "writing" /\ ops'[i].pc = "done"
                     /\ highlights' = ops[i].written
               /\ errors' = errors]_vars

\* a clear, a save and a delete have completed and the tabs were notified
\* of each
C19_Witness ==
    /\ Len(completed) = 3
    /\ {ops[i].kind : i \in 1 .. Len(ops)} = {"clear", "save", "delete"}
    /\ sentTo["listening"] = 3
    /\ sentTo["noContentScript"] = 3
(***************************************************************************)
(* Properties of the summary caches (specification SpecTtl).               *)
(***************************************************************************)
\* the entry of key k in the persisted summary cache, if it is younger than
\* 300 000 ms
FreshEntries(k) ==
    {n \in 1 .. Len(summaryCache) :
        summaryCache[n].key = k /\ now - summaryCache[n].timestamp < 300000}

\* C16: a summarize call that finds a summary stored less than 300 000 ms ago
\* in the page's cache returns it unchanged without a request; otherwise it
\* waits for a request to the background.  A request that finds a summary
\* stored less than 300 000 ms ago in the persisted cache is answered with
\* it unchanged, without passing the rate limiter or calling out; otherwise
\* it goes on to the rate limiter and the outbound call.
C16_CacheTtl ==
    /\ [][Len(calls') = Len(calls) + 1
            => LET call == calls'[Len(calls')]
                   stored == pageSummaryCache[call.page][call.key]
               IN IF stored.summary # NoSummary /\ now - stored.timestamp < 300000
                  THEN /\ call.pc = "done"
                       /\ call.outcome = Outcome(TRUE, stored.summary)
                       /\ requests' = requests
                  ELSE /\ call.pc = "awaiting"
                       /\ apiRequestQueue[call.page][call.key] = 0
                             => Len(requests') = Len(requests) + 1]_vars
    /\ [][\A r \in 1 .. Len(requests) :
              (requests[r].bg = "cacheCheck" /\ requests'[r].bg # "cacheCheck")
              => IF FreshEntries(requests[r].key) # {}
                 THEN /\ requests'[r].bg = "responded"
                      /\ \E n \in FreshEntries(requests[r].key) :
                            requests'[r].response = Outcome(TRUE, summaryCache[n].summary)
                      /\ apiCallTimestamps' = apiCallTimestamps
                 ELSE \/ requests'[r].bg = "fetch"
                      \/ /\ requests'[r].bg = "responded"
                         /\ ~requests'[r].response.ok]_vars

\* one page has summarized one selection three times: by a request, from
\* its cache, and, the entries having expired, by a request that called out
\* again
C16_Witness ==
    /\ Len(calls) = 3
    /\ \A c \in 1 .. 3 : calls[c].page = calls[1].page /\ calls[c].key = calls[1].key
    /\ \A c \in 1 .. 3 : calls[c].pc = "done" /\ calls[c].outcome.ok
    /\ calls[1].request = 1
    /\ calls[2].request = 0
    /\ calls[2].outcome = calls[1].outcome
    /\ calls[3].request = 2
    /\ calls[3].outcome # calls[1].outcome
(***************************************************************************)
(* Failed summarize attempts (specification SpecSum).                      *)
(***************************************************************************)
\* the errors the callers of request r got
FailuresOf(r) ==
    {calls[c].outcome.value :
        c \in {d \in 1 .. Len(calls) :
                  calls[d].request = r /\ calls[d].pc = "done" /\ ~calls[d].outcome.ok}}

\* C17 as stated: a failed summarize attempt, whatever made it fail, has
\* written no entry into the page's cache nor into the persisted cache and
\* has added at most one timestamp to the rate limiter, none when the rate
\* limiter rejected it.
C17_FailedAttempts ==
    \A r \in 1 .. Len(requests) :
        FailuresOf(r) # {}
        => /\ ~requests[r].pageCached
           /\ ~requests[r].wrote
           /\ requests[r].stamped <= 1
           /\ "Rate limit exceeded" \in FailuresOf(r) => requests[r].stamped = 0

\* C17, amended: a failed attempt has written no entry into the page's cache
\* and has added at most one timestamp, none when the rate limiter rejected
\* it; it has written no entry into the persisted cache unless it failed by
\* the caller's timeout, after which the background call goes on.
C17_FailedAttemptsAmended ==
    \A r \in 1 .. Len(requests) :
        FailuresOf(r) # {}
        => /\ ~requests[r].pageCached
           /\ requests[r].stamped <= 1
           /\ "Rate limit exceeded" \in FailuresOf(r) => requests[r].stamped = 0
           /\ "Background script response timeout" \notin FailuresOf(r)
                 => ~requests[r].wrote

\* an attempt failed on the upstream error after its timestamp was recorded,
\* and another was rejected by the rate limiter
C17_Witness ==
    \E r \in 1 .. Len(requests) :
        /\ "Summarization service returned an error" \in FailuresOf(r)
        /\ requests[r].stamped = 1
        /\ ~requests[r].wrote
        /\ summaryCache = <<>>

\* an attempt was rejected by the rate limiter
RateLimitedAttempt ==
    \E r \in 1 .. Len(requests) :
        /\ "Rate limit exceeded" \in FailuresOf(r)
        /\ Len(apiCallTimestamps) = RATE_LIMIT_MAX

\* an attempt failed by the caller's timeout and wrote the persisted cache
TimedOutAttemptWrote ==
    \E r \in 1 .. Len(requests) :
        /\ "Background script response timeout" \in FailuresOf(r)
        /\ requests[r].wrote

\* an attempt failed on the missing configuration
ConfigFailedAttempt ==
    \E r \in 1 .. Len(requests) :
        /\ "Configuration error" \in FailuresOf(r)
        /\ requests[r].stamped = 1
(***************************************************************************)
(* The round trips of a page context to the background (StorageUtils).     *)
(* The background may answer, answer with chrome.runtime.lastError, or     *)
(* never answer; a timer, where the code sets one, fires at its deadline.  *)
(***************************************************************************)
TripActions == {"saveHighlight", "getHighlights", "summarizeHighlight"}

\* the value that stands for a round trip on which no timer is set
NoTimer == 0

\* the setTimeout of each round trip: saveHighlight sets this.requestTimeout,
\* sendMessageToBackground its default; loadHighlights sets none
timeoutOf(action) ==
    CASE action = "saveHighlight" -> requestTimeout
      [] action = "summarizeHighlight" -> SUMMARIZE_TIMEOUT
      [] action = "getHighlights" -> NoTimer

\* the clock stops here in the behaviours of the round trips
MaxTripTime == SUMMARIZE_TIMEOUT + 2 * requestTimeout + 1

Pending(i) == trips[i].pc = "pending"

HasTimer(i) == timeoutOf(trips[i].action) # NoTimer

Deadline(i) == trips[i].sentAt + timeoutOf(trips[i].action)

\* chrome.runtime.sendMessage({action}, callback) in a new Promise
sendMessage(action) ==
    /\ Len(trips) < MaxTrips
    /\ trips' = Append(trips, [action |-> action, sentAt |-> now, pc |-> "pending",
                               result |-> "none"])
    /\ UNCHANGED <<storageVars, rateVars, sumVars, contentVars>>

\* the callback runs with the background's response: clearTimeout, resolve
ResponseCallback(i) ==
    /\ Pending(i)
    /\ trips' = [trips EXCEPT ![i].pc = "resolved", ![i].result = "response"]
    /\ UNCHANGED <<storageVars, rateVars, sumVars, contentVars>>

\* the callback runs with chrome.runtime.lastError set: reject; loadHighlights
\* catches the rejection and returns []
LastErrorCallback(i) ==
    /\ Pending(i)
    /\ trips' = IF trips[i].action = "getHighlights"
                THEN [trips EXCEPT ![i].pc = "resolved", ![i].result = "[]"]
                ELSE [trips EXCEPT ![i].pc = "rejected", ![i].result = "lastError"]
    /\ UNCHANGED <<storageVars, rateVars, sumVars, contentVars>>

\* the setTimeout callback: reject with the timeout error
TimerFires(i) ==
    /\ i \in DOMAIN trips
    /\ Pending(i)
    /\ HasTimer(i)
    /\ now >= Deadline(i)
    /\ trips' = [trips EXCEPT ![i].pc = "rejected",
                              ![i].result = IF trips[i].action = "saveHighlight"
                                            THEN "Response timeout"
                                            ELSE "Background script response timeout"]
    /\ UNCHANGED <<storageVars, rateVars, sumVars, contentVars>>

TripSteps == {requestTimeout, SUMMARIZE_TIMEOUT - requestTimeout}

\* time passes, never beyond the deadline of a timer that has not fired
TripTick ==
    /\ \E step \in TripSteps :
          /\ now + step <= MaxTripTime
          /\ \A i \in 1 .. Len(trips) :
                Pending(i) /\ HasTimer(i) => now + step <= Deadline(i)
          /\ now' = now + step
    /\ UNCHANGED <<apiCallTimestamps, admitted, rateOutcome, lastRejectAt>>
    /\ UNCHANGED <<storageVars, sumVars, tripVars, contentVars>>

NextTrip ==
    \/ \E action \in TripActions : sendMessage(action)
    \/ \E i \in 1 .. Len(trips) : ResponseCallback(i)
    \/ \E i \in 1 .. Len(trips) : LastErrorCallback(i)
    \/ \E i \in 1 .. Len(trips) : TimerFires(i)
    \/ TripTick

\* the page's event loop runs every timer that is due and time passes; nothing
\* obliges the background to answer
SpecTrip ==
    /\ InitConfigured
    /\ [][NextTrip]_vars
    /\ \A i \in 1 .. MaxTrips : WF_vars(TimerFires(i))
    /\ WF_vars(TripTick)

\* C20: every round trip from a page context to the background (saveHighlight,
\* getHighlights, summarizeHighlight) settles within a fixed bound: none is
\* still pending once the longest timeout of the page has passed since it was
\* sent.
C20_RoundTripsSettle ==
    \A i \in 1 .. Len(trips) :
        Pending(i) => now - trips[i].sentAt <= SUMMARIZE_TIMEOUT

\* the round trips on which the code sets a timer are never pending beyond
\* their deadline
TimedRoundTripsSettle ==
    \A i \in 1 .. Len(trips) :
        Pending(i) /\ HasTimer(i) => now <= Deadline(i)

\* a round trip was rejected with the timeout error at its deadline
TimedOutRoundTrip ==
    \E i \in 1 .. Len(trips) :
        /\ trips[i].result \in {"Response timeout", "Background script response timeout"}
        /\ now = Deadline(i)

\* every round trip eventually settles
RoundTripsEventuallySettle ==
    \A i \in 1 .. MaxTrips :
        (i <= Len(trips) /\ Pending(i)) ~> (i <= Len(trips) /\ ~Pending(i))
(***************************************************************************)
(* Lost updates of the persisted summary cache (specification SpecSum).    *)
(***************************************************************************)
\* the keys whose cacheSummary write has completed
WrittenKeys == {requests[r].key : r \in {q \in 1 .. Len(requests) : requests[q].wrote}}

\* C24: read-modify-write sequences on the persisted summary cache are
\* serialized: once the cacheSummary writes of requests with different keys
\* have completed, the persisted summaryCache holds an entry for each key.
C24_NoLostCacheUpdate ==
    \A k \in WrittenKeys : \E n \in 1 .. Len(summaryCache) : summaryCache[n].key = k
(***************************************************************************)
(* Export followed by a replace-import (specification SpecSeq).            *)
(***************************************************************************)
\* the operation imports, in replace mode, the list that was stored when it ran
IsRestore(op) ==
    /\ op.kind = "import"
    /\ ~op.merge
    /\ op.pc = "done"
    /\ op.incoming = op.before
    /\ op.incoming # <<>>

\* C23: a replace-import of the exported collection leaves the persisted list
\* equal to the list that was exported and skips no record as invalid.
C23_ExportImportRoundTrip ==
    \A i \in 1 .. Len(ops) :
        IsRestore(ops[i])
        => /\ ops[i].written = ops[i].before
           /\ ops[i].result.skippedInvalid = 0
(***************************************************************************)
(* Saving a selection from a page (HighlightSaver): the selection snapshot *)
(* pendingHighlight, the save round trip of StorageUtils.saveHighlight and *)
(* the marker placed when the save succeeds.  The background handles the   *)
(* message with saveHighlight above.                                       *)
(***************************************************************************)
\* the user selects text: storeSelectionData replaces pendingHighlight
handleTextSelection ==
    /\ selections < MaxSelections
    /\ selections' = selections + 1
    /\ pendingHighlight' = selections + 1
    /\ UNCHANGED <<pageSaves, markers>>
    /\ UNCHANGED <<storageVars, rateVars, sumVars, tripVars, domVars, locVars, cacheVars, fnVars>>

\* the user clicks Cancel
handleCancelClick ==
    /\ pendingHighlight # 0
    /\ pendingHighlight' = 0
    /\ UNCHANGED <<selections, pageSaves, markers>>
    /\ UNCHANGED <<storageVars, rateVars, sumVars, tripVars, domVars, locVars, cacheVars, fnVars>>

\* the user clicks Save: saveHighlightFromPending creates the highlight object
\* with a fresh id and sends it; the background's handleMessage calls
\* saveHighlight
handleSaveClick ==
    /\ pendingHighlight # 0
    /\ Len(pageSaves) < MaxSelections
    /\ \E textLen \in SelectionLengths :
          LET highlight == createHighlightObject(textLen)
          IN /\ saveHighlight(highlight)
             /\ pageSaves' = Append(pageSaves,
                    [selection |-> pendingHighlight, id |-> highlight.id, sentAt |-> now,
                     op |-> Len(ops) + 1, pc |-> "awaiting", cleared |-> 0])
    /\ nextId' = nextId + 1
    /\ UNCHANGED <<pendingHighlight, selections, markers>>
    /\ UNCHANGED <<rateVars, sumVars, tripVars, domVars, locVars, cacheVars, fnVars>>

\* markTextAsSavedFromPending(highlightId): the range of the current
\* pendingHighlight is wrapped in a span carrying the id; nothing without one
markTextAsSavedFromPending(highlightId) ==
    IF pendingHighlight = 0
    THEN markers
    ELSE Append(markers, [id |-> highlightId, selection |-> pendingHighlight])

\* the response {success: true} arrives before the timer fired: the text is
\* marked and the pending data cleared
SaveResponse(s) ==
    /\ pageSaves[s].pc = "awaiting"
    /\ ops[pageSaves[s].op].pc = "done"
    /\ markers' = markTextAsSavedFromPending(pageSaves[s].id)
    /\ pendingHighlight' = 0
    /\ pageSaves' = [pageSaves EXCEPT ![s].pc = "saved",
                                      ![s].cleared = pendingHighlight]
    /\ UNCHANGED selections
    /\ UNCHANGED <<storageVars, rateVars, sumVars, tripVars, domVars, locVars, cacheVars, fnVars>>

\* the timer of StorageUtils.saveHighlight fires first: the promise is
\* rejected with "Response timeout" and the catch reports the failure
SaveTimeout(s) ==
    /\ pageSaves[s].pc = "awaiting"
    /\ now' = IF now - pageSaves[s].sentAt >= requestTimeout
              THEN now ELSE pageSaves[s].sentAt + requestTimeout
    /\ pageSaves' = [pageSaves EXCEPT ![s].pc = "failed"]
    /\ UNCHANGED <<pendingHighlight, selections, markers>>
    /\ UNCHANGED <<apiCallTimestamps, admitted, rateOutcome, lastRejectAt>>
    /\ UNCHANGED <<storageVars, sumVars, tripVars, domVars, locVars, cacheVars, fnVars>>

\* the callback runs with chrome.runtime.lastError set: the promise is
\* rejected and the catch reports the failure
SaveLastError(s) ==
    /\ pageSaves[s].pc = "awaiting"
    /\ pageSaves' = [pageSaves EXCEPT ![s].pc = "failed"]
    /\ UNCHANGED <<pendingHighlight, selections, markers>>
    /\ UNCHANGED <<storageVars, rateVars, sumVars, tripVars, domVars, locVars, cacheVars, fnVars>>

NextPage ==
    \/ handleTextSelection
    \/ handleCancelClick
    \/ handleSaveClick
    \/ \E i \in 1 .. Len(ops) : StartBody(i)
    \/ \E i \in 1 .. Len(ops) : StorageSet(i)
    \/ \E s \in 1 .. Len(pageSaves) : SaveResponse(s)
    \/ \E s \in 1 .. Len(pageSaves) : SaveTimeout(s)
    \/ \E s \in 1 .. Len(pageSaves) : SaveLastError(s)

SpecPage == InitConfigured /\ [][NextPage]_vars

\* the save call that generated the id
SaveOf(id) == CHOOSE s \in 1 .. Len(pageSaves) : pageSaves[s].id = id

\* C28: the marker placed with a saved highlight's id wraps the selection
\* that was saved, and the response of a save clears no snapshot but that of
\* the selection it saved.
C28_MarkerWrapsSavedText ==
    /\ \A m \in 1 .. Len(markers) :
          markers[m].selection = pageSaves[SaveOf(markers[m].id)].selection
    /\ \A s \in 1 .. Len(pageSaves) :
          pageSaves[s].cleared \in {0, pageSaves[s].selection}

\* the persisted records that stem from selection x
RecordsOf(x) ==
    {k \in 1 .. Len(highlights) :
        \E s \in 1 .. Len(pageSaves) :
            pageSaves[s].selection = x /\ pageSaves[s].id = highlights[k].id}

\* C29: one pending selection snapshot becomes at most one persisted highlight.
C29_OneRecordPerSelection ==
    \A x \in 1 .. selections : Cardinality(RecordsOf(x)) <= 1

\* C30: a save reported to the caller as failed has left no record in the
\* persisted list.
C30_FailedSaveNotPersisted ==
    \A s \in 1 .. Len(pageSaves) :
        pageSaves[s].pc = "failed" => CountId(highlights, pageSaves[s].id) = 0
(***************************************************************************)
(* Marking saved highlights on the page (DOMUtils, CacheManager's text     *)
(* node cache, HighlightSaver.markExistingHighlights).  A text is the      *)
(* sequence of its characters.                                             *)
(***************************************************************************)
\* String.prototype.indexOf: the 0-based index of the first occurrence, -1 if none
indexOf(content, text) ==
    LET found == {i \in 0 .. (Len(content) - Len(text)) :
                     SubSeq(content, i + 1, i + Len(text)) = text}
    IN IF found = {} THEN -1
       ELSE CHOOSE i \in found : \A j \in found : i <= j

\* String.prototype.substring(from, to): to is taken for the length when it
\* is greater
substring(content, from, to) ==
    SubSeq(content, from + 1, IF to > Len(content) THEN Len(content) ELSE to)

RECURSIVE trimStart(_)
trimStart(text) ==
    IF text # <<>> /\ Head(text) = " " THEN trimStart(Tail(text)) ELSE text

RECURSIVE trimEnd(_)
trimEnd(text) ==
    IF text # <<>> /\ text[Len(text)] = " "
    THEN trimEnd(SubSeq(text, 1, Len(text) - 1)) ELSE text

\* String.prototype.trim
trim(text) == trimEnd(trimStart(text))

\* a saved highlight as the page uses it
PageHighlight(id, text) == [id |-> id, text |-> text]

\* createHighlightSpan: the span's textContent is set unless the highlight's
\* text is empty or blank
spanText(highlight) ==
    IF highlight.text # <<>> /\ trim(highlight.text) # <<>> THEN highlight.text ELSE <<>>

\* the position in d of the node nid, 0 when it is not in the document
PositionOf(d, nid) ==
    IF \E k \in 1 .. Len(d) : d[k].nid = nid
    THEN CHOOSE k \in 1 .. Len(d) : d[k].nid = nid
    ELSE 0

\* markTextInNode(textNode, text, index, highlight) for the k-th node of the
\* document: the node is replaced by the text before, the span and the text
\* after; the span and the new nodes are numbered from fresh
markTextInNode(d, k, text, index, highlight, fresh) ==
    LET content == d[k].text
        before == substring(content, 0, index)
        after == substring(content, index + Len(text), Len(content))
        span == [sid |-> fresh, id |-> highlight.id]
        beforeNode == IF before # <<>>
                      THEN <<TextNode(fresh + 1, before, d[k].path)>> ELSE <<>>
        spanNode == <<TextNode(fresh + 2, spanText(highlight), Append(d[k].path, span))>>
        afterNode == IF after # <<>>
                     THEN <<TextNode(fresh + 3, after, d[k].path)>> ELSE <<>>
    IN SubSeq(d, 1, k - 1) \o beforeNode \o spanNode \o afterNode
          \o SubSeq(d, k + 1, Len(d))

\* the nodes at the front of d that lie in the span sid
RECURSIVE SpanRun(_, _)
SpanRun(d, sid) ==
    IF d # <<>> /\ Head(d).path # <<>> /\ Head(d).path[1].sid = sid
    THEN 1 + SpanRun(Tail(d), sid)
    ELSE 0

\* removeExistingHighlightsBatch: every span that is a child of a node of the
\* document is replaced by a new text node with the span's textContent; the
\* set of parents to normalize is collected after the spans were detached
\* (element.parentNode is null then), so no parent is normalized
RECURSIVE removeExistingHighlightsBatch(_, _)
removeExistingHighlightsBatch(d, fresh) ==
    IF d = <<>> THEN <<>>
    ELSE IF Head(d).path = <<>>
    THEN <<Head(d)>> \o removeExistingHighlightsBatch(Tail(d), fresh)
    ELSE LET n == SpanRun(d, Head(d).path[1].sid)
         IN <<TextNode(fresh, textContent(SubSeq(d, 1, n)), <<>>)>>
               \o removeExistingHighlightsBatch(SubSeq(d, n + 1, Len(d)), fresh + 1)

NoSpans(d) == \A k \in 1 .. Len(d) : d[k].path = <<>>

(***************************************************************************)
(* Mark and unmark of one text node (specification SpecMark).              *)
(***************************************************************************)
\* the characters of the page
Chars == {"a", "b", " "}

\* the longest text node
MaxContent == 3

Contents == UNION {[1 .. n -> Chars] : n \in 1 .. MaxContent}

\* the page is one text node of any content
InitMark ==
    /\ StorageInit /\ RateInit /\ SumInit /\ TripInit /\ PageInit /\ LocateInit
    /\ CacheInit /\ FnInit
    /\ aiConfigured
    /\ \E content \in Contents : DomInit(<<TextNode(1, content, <<>>)>>)

\* a highlight whose text occurs in a text node at index is marked there
MarkOccurrence ==
    /\ NoSpans(dom)
    /\ nextNode <= Len(dom) + 1
    /\ \E k \in 1 .. Len(dom) :
          \E index \in 0 .. (Len(dom[k].text) - 1), n \in 1 .. Len(dom[k].text) :
             /\ index + n <= Len(dom[k].text)
             /\ LET text == substring(dom[k].text, index, index + n)
                IN dom' = markTextInNode(dom, k, text, index, PageHighlight(1, text), nextNode)
    /\ nextNode' = nextNode + 4
    /\ UNCHANGED <<pageText, textNodeCache, savedHighlightsData, passes>>
    /\ UNCHANGED <<storageVars, rateVars, sumVars, tripVars, pageVars, locVars, cacheVars, fnVars>>

\* the highlights are removed again
Unmark ==
    /\ ~NoSpans(dom)
    /\ dom' = removeExistingHighlightsBatch(dom, nextNode)
    /\ nextNode' = nextNode + Len(dom)
    /\ UNCHANGED <<pageText, textNodeCache, savedHighlightsData, passes>>
    /\ UNCHANGED <<storageVars, rateVars, sumVars, tripVars, pageVars, locVars, cacheVars, fnVars>>

NextMark == MarkOccurrence \/ Unmark

SpecMark == InitMark /\ [][NextMark]_vars

\* C21: marking a text that occurs in a text node and unmarking it again
\* leaves the concatenated text content of the container equal to the
\* original, character for character.
C21_MarkUnmarkRoundTrip ==
    (NoSpans(dom) /\ nextNode > Len(dom) + 1) => textContent(dom) = pageText
(***************************************************************************)
(* The mark passes of a page (specification SpecDom).                      *)
(***************************************************************************)
Take(seq, n) == SubSeq(seq, 1, IF n < Len(seq) THEN n ELSE Len(seq))

includes(content, text) == indexOf(content, text) # -1

\* findTextNodesOptimized(searchText): the text nodes of the document that
\* contain the text, found by the TreeWalker for short texts and among
\* getAllTextNodes (trimmed length of 2 or more) for longer ones
findTextNodesOptimized(d, searchText) ==
    IF Len(searchText) < SHORT_TEXT_THRESHOLD
    THEN Take(SelectSeq(d, LAMBDA node : /\ Len(node.text) >= Len(searchText)
                                         /\ includes(node.text, searchText)),
              SHORT_TEXT_MAX_MATCHES)
    ELSE Take(SelectSeq(d, LAMBDA node : /\ Len(trim(node.text)) >= 2
                                         /\ includes(node.text, searchText)),
              LONG_TEXT_MAX_MATCHES)

\* the state a mark pass works on: the document, the next node to create,
\* the text node cache, whether a TypeError was thrown, and the highlights
\* findAndMarkTextOptimized was called for
MarkState(d, fresh, cache, thrown, processed) ==
    [dom |-> d, nextNode |-> fresh, cache |-> cache, thrown |-> thrown,
     processed |-> processed]

\* markTextInNodes(textNodes, highlight): every node that contains the text
\* is marked at the first occurrence; a node that is no longer in the
\* document has no parentNode and parent.insertBefore throws
RECURSIVE markTextInNodes(_, _, _)
markTextInNodes(st, textNodes, highlight) ==
    IF textNodes = <<>> \/ st.thrown THEN st
    ELSE LET node == Head(textNodes)
             index == indexOf(node.text, highlight.text)
             k == PositionOf(st.dom, node.nid)
         IN IF index = -1 THEN markTextInNodes(st, Tail(textNodes), highlight)
            ELSE IF k = 0 THEN [st EXCEPT !.thrown = TRUE]
            ELSE markTextInNodes(
                     [st EXCEPT !.dom = markTextInNode(st.dom, k, highlight.text, index,
                                                       highlight, st.nextNode),
                                !.nextNode = st.nextNode + 4],
                     Tail(textNodes), highlight)

\* getCachedTextNodes(cacheKey): the nodes cached for the text less than
\* cacheValidityDuration ago; the key is the text (and the page's url)
HasCachedTextNodes(cache, text) ==
    \E n \in 1 .. Len(cache) :
        cache[n].key = text /\ now - cache[n].timestamp < cacheValidityDuration

getCachedTextNodes(cache, text) ==
    cache[CHOOSE n \in 1 .. Len(cache) : cache[n].key = text].nodes

\* cacheTextNodes(cacheKey, nodes)
cacheTextNodes(cache, text, nodes) ==
    LET entry == [key |-> text, nodes |-> nodes, timestamp |-> now]
    IN IF \E n \in 1 .. Len(cache) : cache[n].key = text
       THEN [n \in 1 .. Len(cache) |-> IF cache[n].key = text THEN entry ELSE cache[n]]
       ELSE Append(cache, entry)

\* findAndMarkTextOptimized(highlight)
findAndMarkTextOptimized(st, highlight) ==
    LET called == [st EXCEPT !.processed = st.processed \cup {highlight.id}]
    IN IF HasCachedTextNodes(st.cache, highlight.text)
       THEN markTextInNodes(called, getCachedTextNodes(st.cache, highlight.text), highlight)
       ELSE LET textNodes == findTextNodesOptimized(st.dom, highlight.text)
            IN markTextInNodes(
                   [called EXCEPT !.cache = cacheTextNodes(st.cache, highlight.text, textNodes)],
                   textNodes, highlight)

\* chunk.forEach(processor): an exception ends the loop
RECURSIVE processChunk(_, _)
processChunk(st, chunk) ==
    IF chunk = <<>> \/ st.thrown THEN st
    ELSE processChunk(findAndMarkTextOptimized(st, Head(chunk)), Tail(chunk))

\* the highlights stored for the page's url: two texts of the page, a text
\* the page does not contain, and a second highlight of the first text
PagePool ==
    {PageHighlight(1, <<"a", "b">>), PageHighlight(2, <<"c", "d">>),
     PageHighlight(3, <<"z", "z">>), PageHighlight(4, <<"a", "b">>)}

HighlightIds == {h.id : h \in PagePool}

\* the lists of stored highlights: more than one chunk at the longest
PageHighlightLists ==
    {list \in UNION {[1 .. n -> PagePool] : n \in 1 .. (chunkSize + 1)} :
        \A i, j \in 1 .. Len(list) : i # j => list[i] # list[j]}

\* loadSavedHighlights: the page loads the highlights of the collection
loadSavedHighlights ==
    /\ savedHighlightsData = <<>>
    /\ savedHighlightsData' \in PageHighlightLists
    /\ UNCHANGED <<dom, nextNode, pageText, textNodeCache, passes>>
    /\ UNCHANGED <<storageVars, rateVars, sumVars, tripVars, pageVars, locVars, cacheVars, fnVars>>

Finished(pass) == pass.pc \in {"done", "aborted"}

\* the spans of the document with the highlight each carries and the number
\* of spans it lies in
Spans(d) ==
    UNION {{[sid |-> d[k].path[j].sid, id |-> d[k].path[j].id, depth |-> j - 1] :
               j \in 1 .. Len(d[k].path)} : k \in 1 .. Len(d)}

SpanTextOf(d, sid) ==
    textContent(SelectSeq(d, LAMBDA node :
                                \E j \in 1 .. Len(node.path) : node.path[j].sid = sid))

\* the markers of the page: for each highlight the number of its spans and
\* the text and nesting depth of each
Markers(d) ==
    [id \in HighlightIds |->
        LET own == {sp \in Spans(d) : sp.id = id}
        IN [count |-> Cardinality(own),
            spans |-> {[text |-> SpanTextOf(d, sp.sid), depth |-> sp.depth] : sp \in own}]]

\* the outcome of the chunk of a pass that starts at index from
AfterChunk(pass, st, from) ==
    [pass EXCEPT !.currentIndex = from + chunkSize,
                 !.processed = st.processed,
                 !.pc = IF st.thrown THEN "aborted"
                        ELSE IF from + chunkSize < Len(pass.items) THEN "scheduled"
                        ELSE "done",
                 !.result = Markers(st.dom)]

\* markExistingHighlights: the spans are removed, then processInChunks runs
\* the first chunk at once and schedules the next; the try/catch swallows an
\* exception of the first chunk
markExistingHighlights ==
    /\ savedHighlightsData # <<>>
    /\ Len(passes) < MaxPasses
    /\ LET unmarked == removeExistingHighlightsBatch(dom, nextNode)
           st == processChunk(MarkState(unmarked, nextNode + Len(dom), textNodeCache,
                                        FALSE, {}),
                              Take(savedHighlightsData, chunkSize))
           overlaps == \E q \in 1 .. Len(passes) : passes[q].pc = "scheduled"
           pass == [items |-> savedHighlightsData, currentIndex |-> 0, pc |-> "scheduled",
                    processed |-> {}, overlap |-> overlaps,
                    after |-> {q \in 1 .. Len(passes) : Finished(passes[q])},
                    result |-> Markers(<<>>)]
       IN /\ dom' = st.dom
          /\ nextNode' = st.nextNode
          /\ textNodeCache' = st.cache
          /\ passes' = Append([q \in 1 .. Len(passes) |->
                                  IF passes[q].pc = "scheduled"
                                  THEN [passes[q] EXCEPT !.overlap = TRUE]
                                  ELSE passes[q]],
                              AfterChunk(pass, st, 0))
    /\ UNCHANGED <<pageText, savedHighlightsData>>
    /\ UNCHANGED <<storageVars, rateVars, sumVars, tripVars, pageVars, locVars, cacheVars, fnVars>>

\* the idle callback runs the next chunk of a pass; an exception ends the
\* callback before the following chunk is scheduled
RunScheduledChunk(p) ==
    /\ passes[p].pc = "scheduled"
    /\ LET from == passes[p].currentIndex
           st == processChunk(MarkState(dom, nextNode, textNodeCache, FALSE,
                                        passes[p].processed),
                              SubSeq(passes[p].items, from + 1,
                                     IF from + chunkSize < Len(passes[p].items)
                                     THEN from + chunkSize ELSE Len(passes[p].items)))
       IN /\ dom' = st.dom
          /\ nextNode' = st.nextNode
          /\ textNodeCache' = st.cache
          /\ passes' = [passes EXCEPT ![p] = AfterChunk(passes[p], st, from)]
    /\ UNCHANGED <<pageText, savedHighlightsData>>
    /\ UNCHANGED <<storageVars, rateVars, sumVars, tripVars, pageVars, locVars, cacheVars, fnVars>>

\* the times of the mark passes: the start, the last instant at which the
\* cache entries of the start are valid, and the first at which they are not
DomTimes == {1, cacheValidityDuration, cacheValidityDuration + 1}

\* time passes between update notifications; a scheduled chunk runs within
\* the idle callback's timeout, long before the cache entries expire
DomTick ==
    /\ \A q \in 1 .. Len(passes) : passes[q].pc # "scheduled"
    /\ \E t \in DomTimes : t > now /\ now' = t
    /\ UNCHANGED <<apiCallTimestamps, admitted, rateOutcome, lastRejectAt>>
    /\ UNCHANGED <<storageVars, sumVars, tripVars, contentVars>>

NextDom ==
    \/ loadSavedHighlights
    \/ markExistingHighlights
    \/ \E p \in 1 .. Len(passes) : RunScheduledChunk(p)
    \/ DomTick

SpecDom == InitConfigured /\ [][NextDom]_vars

\* what one mark pass over the stored highlights leaves on the untouched page
SinglePass(items) ==
    processChunk(MarkState(PageDom, Len(PageDom) + 1, <<>>, FALSE, {}), items).dom

AllChunksRan == passes # <<>> /\ \A q \in 1 .. Len(passes) : Finished(passes[q])

\* C25: when a mark pass started while chunks of an earlier pass were still
\* pending, then once all scheduled chunks have run the page holds the
\* markers a single pass produces and no marker inside another marker.
C25_OverlappingPasses ==
    (AllChunksRan /\ \E q \in 1 .. Len(passes) : passes[q].overlap)
    => /\ Markers(dom) = Markers(SinglePass(savedHighlightsData))
       /\ \A sp \in Spans(dom) : sp.depth = 0

\* pass q ran right after pass p had finished, and no other pass overlapped them
InSuccession(p, q) ==
    /\ q = p + 1
    /\ p \in passes[q].after
    /\ Finished(passes[q])
    /\ ~passes[p].overlap /\ ~passes[q].overlap

\* C26: a mark pass that runs after another over the same stored highlights
\* and the same page leaves every highlight marked that the first pass had
\* marked, with the same markers.
C26_MarkPassIdempotent ==
    \A p, q \in 1 .. Len(passes) :
        InSuccession(p, q)
        => \A id \in HighlightIds :
              passes[p].result[id].count > 0 => passes[q].result[id] = passes[p].result[id]

\* C27: a failure on one highlight leaves the others to be processed: a mark
\* pass that nothing overlapped has called findAndMarkTextOptimized for every
\* highlight of the page once its chunks have run.
C27_FailureIsolated ==
    \A p \in 1 .. Len(passes) :
        (Finished(passes[p]) /\ ~passes[p].overlap)
        => passes[p].processed = {passes[p].items[k].id : k \in 1 .. Len(passes[p].items)}
(***************************************************************************)
(* Locating the saved text among several text nodes (specification         *)
(* SpecLocate): RangeUtils.findBestTextNode and EventUtils.scrollToText.   *)
(***************************************************************************)
\* first index of 1 .. n at which the value of f is smallest
FirstSmallest(n, f(_)) ==
    CHOOSE i \in 1 .. n :
        \A j \in 1 .. n : f(i) < f(j) \/ (f(i) = f(j) /\ i <= j)

\* the square of Math.sqrt((top - target.top)^2 + (left - target.left)^2)
SquaredDistance(position, target) ==
    (position[1] - target[1]) * (position[1] - target[1])
       + (position[2] - target[2]) * (position[2] - target[2])

Abs(x) == IF x < 0 THEN -x ELSE x

\* Math.abs(top - textPosition.top) + Math.abs(left - textPosition.left)
AbsoluteDistance(position, target) ==
    Abs(position[1] - target[1]) + Abs(position[2] - target[2])

\* findNodeByPosition: the first node at the smallest distance
findNodeByPosition(c) ==
    FirstSmallest(Len(c.positions),
                  LAMBDA i : SquaredDistance(c.positions[i], c.textPosition))

\* the words of originalContext that occur in nodeContext
commonWords(originalWords, nodeWords) ==
    Cardinality({w \in 1 .. Len(originalWords) :
                    \E v \in 1 .. Len(nodeWords) : nodeWords[v] = originalWords[w]})

Max(a, b) == IF a > b THEN a ELSE b

\* calculateContextSimilarity(a) > calculateContextSimilarity(b) for the
\* contexts a and b of two nodes, as the comparison of two fractions
MoreSimilar(originalWords, a, b) ==
    commonWords(originalWords, a) * Max(Len(originalWords), Len(b))
        > commonWords(originalWords, b) * Max(Len(originalWords), Len(a))

\* findNodeByContext: the first node of the highest score above 0, or the
\* first node
findNodeByContext(c) ==
    LET scored == {i \in 1 .. Len(c.contexts) :
                      commonWords(c.surroundingText, c.contexts[i]) > 0}
    IN IF scored = {} THEN 1
       ELSE CHOOSE i \in scored :
                \A j \in scored :
                    \/ MoreSimilar(c.surroundingText, c.contexts[i], c.contexts[j])
                    \/ (~MoreSimilar(c.surroundingText, c.contexts[j], c.contexts[i])
                          /\ i <= j)

\* findBestTextNode(textNodes, text, surroundingText, textPosition)
findBestTextNode(c) ==
    IF Len(c.positions) = 1 THEN 1
    ELSE IF c.surroundingText # <<>> THEN findNodeByContext(c)
    ELSE IF c.textPosition # NoPosition THEN findNodeByPosition(c)
    ELSE 1

\* scrollToText(textNodes, text, callback, textPosition): bestMatch, the
\* closest node or else the one text.length / content.length is highest in
scrollToText(c) ==
    IF c.textPosition # NoPosition
    THEN FirstSmallest(Len(c.positions),
                       LAMBDA i : AbsoluteDistance(c.positions[i], c.textPosition))
    ELSE FirstSmallest(Len(c.lengths), LAMBDA i : c.lengths[i])

\* where the saved text can be on the page
Positions == {<<0, 5>>, <<3, 3>>, <<6, 0>>, <<1, 1>>}

\* the lookups: the text in one node or in three, with a stored position or
\* none and stored surrounding words or none
LocateCases ==
    {LocateCase(positions, contexts, lengths, target, around) :
        positions \in [1 .. 1 -> Positions] \cup [1 .. 3 -> Positions],
        contexts \in {[i \in 1 .. 3 |-> <<"u", "v">>], <<<<"w">>, <<"u", "v">>, <<"w">>>>},
        lengths \in {<<4, 4, 4>>, <<4, 3, 4>>},
        target \in {NoPosition, <<0, 0>>},
        around \in {<<>>, <<"u", "v">>}}

\* a lookup is to be made
LocateRequest ==
    /\ locateCase = NoCase
    /\ \E c \in LocateCases :
          locateCase' = [c EXCEPT !.contexts = SubSeq(c.contexts, 1, Len(c.positions)),
                                  !.lengths = SubSeq(c.lengths, 1, Len(c.positions))]
    /\ UNCHANGED located
    /\ UNCHANGED <<storageVars, rateVars, sumVars, tripVars, pageVars, domVars, cacheVars, fnVars>>

\* markTextByContent locates the node to mark
LocateForMark ==
    /\ locateCase # NoCase
    /\ located.best = 0
    /\ located' = [located EXCEPT !.best = findBestTextNode(locateCase)]
    /\ UNCHANGED locateCase
    /\ UNCHANGED <<storageVars, rateVars, sumVars, tripVars, pageVars, domVars, cacheVars, fnVars>>

\* scrollToAndHighlightText locates the node to scroll to
LocateForScroll ==
    /\ locateCase # NoCase
    /\ located.scroll = 0
    /\ located' = [located EXCEPT !.scroll = scrollToText(locateCase)]
    /\ UNCHANGED locateCase
    /\ UNCHANGED <<storageVars, rateVars, sumVars, tripVars, pageVars, domVars, cacheVars, fnVars>>

NextLocate == LocateRequest \/ LocateForMark \/ LocateForScroll

SpecLocate == InitConfigured /\ [][NextLocate]_vars

\* the second of three occurrences is the closest to the stored position
SecondIsClosest(c) ==
    /\ Len(c.positions) = 3
    /\ c.textPosition # NoPosition
    /\ \A i \in {1, 3} :
          SquaredDistance(c.positions[2], c.textPosition)
             < SquaredDistance(c.positions[i], c.textPosition)

\* C22: with the text in one node the locator returns that node; with the
\* text in three nodes and a stored position closest to the second
\* occurrence, it chooses the second occurrence.
C22_Locator ==
    \A chosen \in {located.best, located.scroll} \ {0} :
        /\ Len(locateCase.positions) = 1 => chosen = 1
        /\ SecondIsClosest(locateCase) => chosen = 2
(***************************************************************************)
(* Failing storage accesses under the storage lock (specification          *)
(* SpecLock).                                                              *)
(***************************************************************************)
\* .then(release) in place of .finally(release): a rejected body leaves the
\* lock unresolved
thenRelease(lock) == released

\* previous.then(() => fn()).finally(release): the lock of the operation is
\* resolved when its body has rejected
finallyRelease(lock) == released \cup {lock}

\* the bodies that read the store before they write: save, delete and the
\* merge branch of import
ReadsStore(op) == op.kind \in {"save", "delete"} \/ (op.kind = "import" /\ op.merge)

\* chrome.storage.local.get rejects in the body of operation i: the body
\* rejects, nothing is written, no tab is notified, the promise handed to
\* handleMessage rejects and its catch answers the caller with the error
StorageGetFails(i) ==
    /\ ops[i].pc = "queued"
    /\ CanStart(i)
    /\ ReadsStore(ops[i])
    /\ ops' = [ops EXCEPT ![i].pc = "failed"]
    /\ released' = finallyRelease(ops[i].newLock)
    /\ UNCHANGED <<highlights, storageLock, completed, nextId, getResult, getAt>>
    /\ UNCHANGED <<errors, sentTo, rateVars, sumVars, tripVars, contentVars>>

\* chrome.storage.local.set rejects in the body of operation i
StorageSetFails(i) ==
    /\ ops[i].pc = "writing"
    /\ ops' = [ops EXCEPT ![i].pc = "failed"]
    /\ released' = finallyRelease(ops[i].newLock)
    /\ UNCHANGED <<highlights, storageLock, completed, nextId, getResult, getAt>>
    /\ UNCHANGED <<errors, sentTo, rateVars, sumVars, tripVars, contentVars>>

\* the popup imports a file of one record, merging or replacing
ImportOneRecord ==
    /\ \A i \in 1 .. Len(ops) : ops[i].kind # "import"
    /\ \E merge \in BOOLEAN : importHighlights(<<FileRecord(CHOOSE id \in ForeignIds : TRUE)>>, merge)
    /\ UNCHANGED <<nextId, rateVars, sumVars, tripVars, contentVars>>

NextLock ==
    \/ SaveHighlight
    \/ DeleteHighlight
    \/ ImportOneRecord
    \/ \E i \in 1 .. Len(ops) : StartBody(i)
    \/ \E i \in 1 .. Len(ops) : StorageSet(i)
    \/ \E i \in 1 .. Len(ops) : StorageGetFails(i)
    \/ \E i \in 1 .. Len(ops) : StorageSetFails(i)

\* the reaction of a resolved lock runs (the job queue of the service worker)
\* and every storage access settles, by resolving or by rejecting
SpecLock ==
    /\ InitConfigured
    /\ [][NextLock]_vars
    /\ \A i \in 1 .. MaxOps :
          /\ WF_vars(i \in DOMAIN ops /\ (StartBody(i) \/ StorageGetFails(i)))
          /\ WF_vars(i \in DOMAIN ops /\ (StorageSet(i) \/ StorageSetFails(i)))

Settled(i) == i \in DOMAIN ops /\ ops[i].pc \in {"done", "failed"}

\* C31: the storage lock is always released: when the body of a mutating
\* operation rejects because a storage read or write fails, only that
\* operation is answered with the error, and every mutating operation, those
\* invoked after the failure included, eventually runs and settles.
C31_LockAlwaysReleased ==
    \A i \in 1 .. MaxOps : (i \in DOMAIN ops) ~> Settled(i)

\* the lock of every settled operation is resolved and a failed operation has
\* written nothing
FailureReleasesLock ==
    \A i \in DOMAIN ops :
        /\ Settled(i) => ops[i].newLock \in released
        /\ ops[i].pc = "failed" => \A j \in 1 .. Len(completed) : completed[j] # i

\* an operation ran and completed behind one whose body had rejected
C31_Witness ==
    \E i, j \in DOMAIN ops :
        /\ ops[i].pc = "failed"
        /\ ops[j].previous = ops[i].newLock
        /\ ops[j].pc = "done"
(***************************************************************************)
(* The in-flight registry and cache cleanup (specification SpecCleanup).   *)
(***************************************************************************)
\* the page whose document the page variables describe
ThisPage == CHOOSE p \in Pages : \A q \in Pages : p <= q

\* HighlightSaver.cleanup in page p (beforeunload, pagehide or the cleanup
\* message): CacheManager.cleanup clears the node cache, the summary cache and
\* the in-flight registry, and the pending selection is dropped; the requests
\* that are outstanding stay outstanding
Cleanup(p) ==
    /\ pageSummaryCache' = [pageSummaryCache EXCEPT ![p] = [k \in Keys |-> NoEntry]]
    /\ apiRequestQueue' = [apiRequestQueue EXCEPT ![p] = [k \in Keys |-> 0]]
    /\ IF p = ThisPage
       THEN /\ textNodeCache' = <<>>
            /\ pageSummaries' = <<>>
            /\ pendingHighlight' = 0
       ELSE UNCHANGED <<textNodeCache, pageSummaries, pendingHighlight>>
    /\ UNCHANGED <<cacheRead, lastSweep>>
    /\ UNCHANGED <<summaryCache, aiConfigured, calls, requests>>
    /\ UNCHANGED <<selections, pageSaves, markers>>
    /\ UNCHANGED <<dom, nextNode, pageText, savedHighlightsData, passes>>
    /\ UNCHANGED <<storageVars, rateVars, tripVars, locVars, fnVars>>

NextCleanup ==
    \/ NextSum
    \/ \E p \in Pages : Cleanup(p)

SpecCleanup == InitConfigured /\ [][NextCleanup]_vars

\* the unsettled summarize requests of page p for key k
Outstanding(p, k) ==
    {r \in 1 .. Len(requests) :
        requests[r].page = p /\ requests[r].key = k /\ ~requests[r].settled}

\* C32: for every cache key the in-flight registry of a page holds an entry
\* exactly while the page has an unsettled summarize request for that key,
\* and the entry is that request: it is added when the request is issued,
\* removed when it settles and never while it is outstanding.
C32_RegistryExact ==
    \A p \in Pages, k \in Keys :
        IF Outstanding(p, k) = {}
        THEN apiRequestQueue[p][k] = 0
        ELSE Outstanding(p, k) = {apiRequestQueue[p][k]}
(***************************************************************************)
(* The caches of the page's CacheManager: writes, reads and the periodic   *)
(* sweep (specification SpecCache).                                        *)
(***************************************************************************)
\* this.maxTextNodesCache (50) and this.maxSummaryCacheSize (20), scaled
maxTextNodesCache == 1
maxSummaryCacheSize == 1

\* the age at which getCachedSummary and cleanupExpiredCaches take a summary
\* of the page for expired
pageSummaryValidity == 300000

\* the keys of the node cache and of the summary cache of the page
NodeKeys == 1 .. (maxTextNodesCache + 1)
SummaryKeys == 1 .. (maxSummaryCacheSize + 1)

Least(S) == CHOOSE x \in S : \A y \in S : x <= y

\* the keys of the first count entries, in Map order, whose timestamp is t
FirstWithTimestamp(cache, t, count) ==
    {cache[n].key : n \in {m \in 1 .. Len(cache) :
        /\ cache[m].timestamp = t
        /\ Cardinality({l \in 1 .. m : cache[l].timestamp = t}) <= count}}

\* findOldestEntries(cache, count): entries of the oldest timestamp, then
\* entries of the next oldest timestamp, and no further timestamp
findOldestEntries(cache, count) ==
    LET stamps == {cache[n].timestamp : n \in 1 .. Len(cache)}
        oldestTimestamp == Least(stamps)
        oldestKeys == FirstWithTimestamp(cache, oldestTimestamp, count)
        later == {t \in stamps : t > oldestTimestamp}
    IN IF Cardinality(oldestKeys) >= count \/ later = {} THEN oldestKeys
       ELSE oldestKeys \cup
            FirstWithTimestamp(cache, Least(later), count - Cardinality(oldestKeys))

\* limitCacheSize(cache, maxSize)
limitCacheSize(cache, maxSize) ==
    IF Len(cache) <= maxSize THEN cache
    ELSE LET oldestEntries == findOldestEntries(cache, Len(cache) - maxSize)
         IN SelectSeq(cache, LAMBDA e : e.key \notin oldestEntries)

\* cleanupExpiredCaches(now) on one cache
cleanupExpired(cache, validity) ==
    SelectSeq(cache, LAMBDA e : ~(now - e.timestamp > validity))

\* CacheManager.cacheSummary(cacheKey, summary)
cacheSummaryOfPage(cache, k, summary) ==
    LET entry == [key |-> k, summary |-> summary, timestamp |-> now]
    IN IF \E n \in 1 .. Len(cache) : cache[n].key = k
       THEN [n \in 1 .. Len(cache) |-> IF cache[n].key = k THEN entry ELSE cache[n]]
       ELSE Append(cache, entry)

\* the entries of cache under key k (none or one)
EntriesOf(cache, k) == {cache[n] : n \in {m \in 1 .. Len(cache) : cache[m].key = k}}

\* what a read of key k returns from a cache whose entries are valid for
\* validity ms: the stored entries younger than that (null when there is none)
Fresh(cache, k, validity) ==
    {e \in EntriesOf(cache, k) : now - e.timestamp < validity}

\* a read, as cacheRead keeps it: what was stored, what was returned and
\* whether the entry is in the cache after the read
Read(name, cache, after, k, validity) ==
    [cache |-> name, key |-> k,
     age |-> IF EntriesOf(cache, k) = {} THEN -1
             ELSE now - (CHOOSE e \in EntriesOf(cache, k) : TRUE).timestamp,
     validity |-> validity,
     hit |-> Fresh(cache, k, validity) # {},
     kept |-> EntriesOf(after, k) # {}]

\* cacheTextNodes(cacheKey, nodes)
CacheWriteNodes(k) ==
    /\ textNodeCache' = cacheTextNodes(textNodeCache, k, <<>>)
    /\ UNCHANGED <<pageSummaries, cacheRead, lastSweep>>
    /\ UNCHANGED <<dom, nextNode, pageText, savedHighlightsData, passes>>
    /\ UNCHANGED <<storageVars, rateVars, sumVars, tripVars, pageVars, locVars, fnVars>>

\* cacheSummary(cacheKey, summary)
CacheWriteSummary(k) ==
    /\ pageSummaries' = cacheSummaryOfPage(pageSummaries, k, k)
    /\ UNCHANGED <<cacheRead, lastSweep>>
    /\ UNCHANGED <<storageVars, rateVars, sumVars, tripVars, pageVars, domVars, locVars, fnVars>>

\* getCachedTextNodes(cacheKey): the cache is left as it is
CacheReadNodes(k) ==
    /\ cacheRead' = Read("textNodeCache", textNodeCache, textNodeCache, k,
                         cacheValidityDuration)
    /\ UNCHANGED <<pageSummaries, lastSweep>>
    /\ UNCHANGED <<storageVars, rateVars, sumVars, tripVars, pageVars, domVars, locVars, fnVars>>

\* getCachedSummary(cacheKey): the cache is left as it is
CacheReadSummary(k) ==
    /\ cacheRead' = Read("summaryCache", pageSummaries, pageSummaries, k,
                         pageSummaryValidity)
    /\ UNCHANGED <<pageSummaries, lastSweep>>
    /\ UNCHANGED <<storageVars, rateVars, sumVars, tripVars, pageVars, domVars, locVars, fnVars>>

\* performMemoryCleanup: cleanupExpiredCaches(now), then limitCacheSizes()
performMemoryCleanup ==
    LET nodes == cleanupExpired(textNodeCache, cacheValidityDuration)
        summaries == cleanupExpired(pageSummaries, pageSummaryValidity)
    IN /\ textNodeCache' = limitCacheSize(nodes, maxTextNodesCache)
       /\ pageSummaries' = limitCacheSize(summaries, maxSummaryCacheSize)
       /\ UNCHANGED <<cacheRead, lastSweep>>
       /\ UNCHANGED <<dom, nextNode, pageText, savedHighlightsData, passes>>
       /\ UNCHANGED <<storageVars, rateVars, sumVars, tripVars, pageVars, locVars, fnVars>>

\* the times at which the caches are written, read and swept
CacheTimes == {2, 3, cacheValidityDuration + 1, pageSummaryValidity + 1}

CacheTick ==
    /\ \E t \in CacheTimes : t > now /\ now' = t
    /\ UNCHANGED <<apiCallTimestamps, admitted, rateOutcome, lastRejectAt>>
    /\ UNCHANGED <<storageVars, sumVars, tripVars, contentVars>>

NextCache ==
    \/ \E k \in NodeKeys : CacheWriteNodes(k)
    \/ \E k \in SummaryKeys : CacheWriteSummary(k)
    \/ \E k \in NodeKeys : CacheReadNodes(k)
    \/ \E k \in SummaryKeys : CacheReadSummary(k)
    \/ performMemoryCleanup
    \/ CacheTick

SpecCache == InitConfigured /\ [][NextCache]_vars

\* the caches limitCacheSize is called on: up to three entries more than
\* the capacity, in Map order, with every distribution of three timestamps
LimitStamps == {1, 2, 3}

LimitCaches ==
    UNION {{[k \in 1 .. n |-> [key |-> k, nodes |-> <<>>, timestamp |-> stamps[k]]] :
                stamps \in [1 .. n -> LimitStamps]} :
           n \in 0 .. (maxTextNodesCache + 3)}

\* limitCacheSize(cache, maxSize) is called on a cache
LimitCall ==
    /\ lastSweep = <<>>
    /\ \E cache \in LimitCaches :
          lastSweep' = <<[before |-> cache,
                          after |-> limitCacheSize(cache, maxTextNodesCache),
                          maxSize |-> maxTextNodesCache]>>
    /\ UNCHANGED <<pageSummaries, cacheRead>>
    /\ UNCHANGED <<storageVars, rateVars, sumVars, tripVars, pageVars, domVars, locVars, fnVars>>

NextLimit == LimitCall

SpecLimit == InitConfigured /\ [][NextLimit]_vars

\* C33: when a cache holds more entries than its capacity, size limiting
\* removes entries oldest first until the cache is back at capacity: after
\* limitCacheSize the cache holds at most maxSize entries and no removed
\* entry has a newer timestamp than a retained one.
C33_LimitToCapacity ==
    \A n \in 1 .. Len(lastSweep) :
        LET sweep == lastSweep[n]
            retained == {sweep.after[m] : m \in 1 .. Len(sweep.after)}
            removed == {sweep.before[m] : m \in 1 .. Len(sweep.before)} \ retained
        IN /\ Len(sweep.after) <= sweep.maxSize
           /\ \A r \in removed, e \in retained : r.timestamp <= e.timestamp

\* the entries a sweep removes are never newer than those it retains
RemovedOldestFirst ==
    \A n \in 1 .. Len(lastSweep) :
        LET sweep == lastSweep[n]
            retained == {sweep.after[m] : m \in 1 .. Len(sweep.after)}
            removed == {sweep.before[m] : m \in 1 .. Len(sweep.before)} \ retained
        IN \A r \in removed, e \in retained : r.timestamp <= e.timestamp

\* C34: in every state reachable through cache writes, reads and periodic
\* sweeps the node cache holds at most maxTextNodesCache entries and the
\* summary cache of the page at most maxSummaryCacheSize.
C34_CachesWithinCapacity ==
    /\ Len(textNodeCache) <= maxTextNodesCache
    /\ Len(pageSummaries) <= maxSummaryCacheSize

\* C35: a read of an entry whose age has reached the validity of its cache
\* returns absent, as a read of a missing key does, and removes the entry; a
\* read of a younger entry returns the stored value.
C35_ExpiredReadRemoves ==
    cacheRead # NoRead =>
        /\ cacheRead.age = -1 => ~cacheRead.hit
        /\ cacheRead.age >= cacheRead.validity => ~cacheRead.hit /\ ~cacheRead.kept
        /\ (cacheRead.age >= 0 /\ cacheRead.age < cacheRead.validity) => cacheRead.hit

\* what a read returns is as the statement has it: absent for a missing key
\* and for an entry that has reached its validity, the value otherwise
ReadResultByAge ==
    cacheRead # NoRead =>
        cacheRead.hit = (cacheRead.age >= 0 /\ cacheRead.age < cacheRead.validity)
(***************************************************************************)
(* Waiting the time the rate limiter reports (specification SpecWait).     *)
(***************************************************************************)
\* the caller whose call was rejected waits the reported number of seconds
WaitReported ==
    /\ ~rateOutcome.ok
    /\ now = rateOutcome.at
    /\ now + rateOutcome.waitTime * 1000 <= MaxTime
    /\ now' = now + rateOutcome.waitTime * 1000
    /\ UNCHANGED <<apiCallTimestamps, admitted, rateOutcome, lastRejectAt>>
    /\ UNCHANGED <<storageVars, sumVars, tripVars, contentVars>>

NextWait ==
    \/ Tick
    \/ RateCheckCall
    \/ WaitReported

SpecWait == InitConfigured /\ [][NextWait]_vars

\* C36: a call the rate limiter rejects is told a wait time in whole seconds
\* between 1 and 60, is not recorded (not queued, never retried), and a call
\* made that many seconds after the rejection, with no call admitted in
\* between, is admitted.
C36_WaitTime ==
    [][rateOutcome' # rateOutcome =>
          /\ ~rateOutcome'.ok =>
                /\ rateOutcome'.waitTime \in 1 .. (RATE_LIMIT_WINDOW \div 1000)
                /\ admitted' = admitted
                /\ Len(apiCallTimestamps') <= Len(apiCallTimestamps)
          /\ (~rateOutcome.ok /\ now >= rateOutcome.at + rateOutcome.waitTime * 1000)
                => rateOutcome'.ok]_vars

\* a call was rejected when the oldest call was not a whole number of seconds
\* old, and the call made the reported number of seconds later was admitted
C36_Witness ==
    /\ Len(admitted) = RATE_LIMIT_MAX + 1
    /\ rateOutcome.ok
    /\ lastRejectAt > 0
    /\ (lastRejectAt - admitted[1]) % 1000 # 0
    /\ rateOutcome.at = lastRejectAt
          + 1000 * CeilSeconds(RATE_LIMIT_WINDOW - (lastRejectAt - admitted[1]))
(***************************************************************************)
(* The text nodes an unmark leaves (specification SpecMark).               *)
(***************************************************************************)
\* the texts that lie in one text node of content
TextsIn(content) ==
    {substring(content, index, index + n) :
        index \in 0 .. (Len(content) - 1), n \in 1 .. Len(content)} \ {<<>>}

\* C37: after unmarking, the before-text, the marker's text and the
\* after-text are merged into a single text node again: the container has the
\* text-node structure it had before marking (one text node), and every text
\* that lay in the original node is found in a single node.
C37_UnmarkMerges ==
    (NoSpans(dom) /\ nextNode > Len(dom) + 1) =>
        /\ Len(dom) = 1
        /\ \A text \in TextsIn(pageText) :
              \E k \in 1 .. Len(dom) : includes(dom[k].text, text)
(***************************************************************************)
(* The order of the persisted collection (specification SpecOrder).        *)
(***************************************************************************)
\* the times at which selections are made and saved
OrderTimes == {2, 5}

OrderTick ==
    /\ \E t \in OrderTimes : t > now /\ now' = t
    /\ UNCHANGED <<apiCallTimestamps, admitted, rateOutcome, lastRejectAt>>
    /\ UNCHANGED <<storageVars, sumVars, tripVars, contentVars>>

\* a page saves a selection it captured at the start of the behaviour or just
\* now: createHighlightObject takes pendingHighlight.timestamp, the time of
\* the selection, and the save button is clicked later
SaveCaptured ==
    /\ \E textLen \in SelectionLengths, captured \in {1, now} :
          saveHighlight(Highlight(nextId, textLen, PageUrlLength, captured))
    /\ nextId' = nextId + 1
    /\ UNCHANGED <<rateVars, sumVars, tripVars, contentVars>>

NextOrder ==
    \/ SaveCaptured
    \/ DeleteHighlight
    \/ ImportHighlights
    \/ \E i \in 1 .. Len(ops) : StartBody(i)
    \/ \E i \in 1 .. Len(ops) : StorageSet(i)
    \/ OrderTick

SpecOrder == InitConfigured /\ [][NextOrder]_vars

\* C38: the persisted collection is ordered newest first: in every state
\* reachable through saves, deletes and imports the timestamps of the records
\* do not increase from the first element to the last.
C38_NewestFirst ==
    \A i, j \in 1 .. Len(highlights) :
        i < j => highlights[i].timestamp >= highlights[j].timestamp
(***************************************************************************)
(* The summary cache key (specification SpecKey).                          *)
(***************************************************************************)
\* the number of characters of the text that go into the key (100), scaled
keyTextLength == 2

\* the characters [a-zA-Z0-9] among those of the model
Alphanumeric == {"a", "b", "u", "v", "t"}

\* .replace(/[^a-zA-Z0-9]/g, "_")
replaceNonAlphanumeric(s) ==
    [i \in 1 .. Len(s) |-> IF s[i] \in Alphanumeric THEN s[i] ELSE "_"]

\* generateSummaryCacheKey(highlight)
generateSummaryCacheKey(highlight) ==
    LET text == substring(highlight.text, 0, keyTextLength)
    IN replaceNonAlphanumeric(text \o <<"_">> \o highlight.url \o <<"_">> \o highlight.title)

\* the highlights a page asks a summary for: texts of letters, blanks and
\* hyphens up to one character longer than the key takes, two urls, two titles
KeyTexts == UNION {[1 .. n -> {"a", " ", "-"}] : n \in 1 .. (keyTextLength + 1)}

KeyHighlights ==
    {[text |-> text, url |-> url, title |-> title] :
        text \in KeyTexts, url \in {<<"u">>, <<"v">>}, title \in {<<"t">>, <<"t", "_">>}}

\* the keys of two highlights are generated
GenerateKeys ==
    /\ keyCase = <<>>
    /\ \E first \in KeyHighlights, second \in KeyHighlights :
          keyCase' = <<[highlight |-> first, key |-> generateSummaryCacheKey(first)],
                       [highlight |-> second, key |-> generateSummaryCacheKey(second)]>>
    /\ UNCHANGED rangeCase
    /\ UNCHANGED <<storageVars, rateVars, sumVars, tripVars, pageVars, domVars, locVars, cacheVars>>

NextKey == GenerateKeys

SpecKey == InitConfigured /\ [][NextKey]_vars

\* C39: the summary cache key is a function of the highlight, and two
\* highlights that differ in text, url or title have different keys.
C39_KeysDistinguish ==
    \A i, j \in 1 .. Len(keyCase) :
        (keyCase[i].highlight = keyCase[j].highlight) = (keyCase[i].key = keyCase[j].key)

\* the same highlight always gets the same key
SameHighlightSameKey ==
    \A i, j \in 1 .. Len(keyCase) :
        keyCase[i].highlight = keyCase[j].highlight => keyCase[i].key = keyCase[j].key
(***************************************************************************)
(* A text that spans several text nodes (specification SpecRange).         *)
(***************************************************************************)
\* the most text nodes of a document and the longest text
MaxNodes == 3
MaxText == 2

\* concat: the contents of the text nodes in document order
RECURSIVE concatenate(_)
concatenate(contents) ==
    IF contents = <<>> THEN <<>> ELSE Head(contents) \o concatenate(Tail(contents))

\* nodes.push({node, start: concat.length}): the offset of node n in concat
startOf(contents, n) == Len(concatenate(SubSeq(contents, 1, n - 1)))

endsBefore(endIndex, nodeEnd) == endIndex < nodeEnd

\* endIndex <= nodeEnd
endsIn(endIndex, nodeEnd) == endIndex <= nodeEnd

\* no range: null
NoRange == <<>>

\* findTextRangeAcrossElements(searchText, root), root holding the text
\* nodes of the given contents
findTextRangeAcrossElements(searchText, contents) ==
    LET concat == concatenate(contents)
        index == indexOf(concat, searchText)
        endIndex == index + Len(searchText)
        nodeEnd(n) == startOf(contents, n) + Len(contents[n])
        starts == {n \in 1 .. Len(contents) : index < nodeEnd(n)}
        startNode == CHOOSE n \in starts : \A m \in starts : n <= m
        ends == {n \in 1 .. Len(contents) : n >= startNode /\ endsIn(endIndex, nodeEnd(n))}
        endNode == CHOOSE n \in ends : \A m \in ends : n <= m
    IN IF index = -1 THEN NoRange
       ELSE IF starts = {} THEN NoRange
       ELSE IF ends = {} THEN NoRange
       ELSE <<[startNode |-> startNode, startOffset |-> index - startOf(contents, startNode),
               endNode |-> endNode, endOffset |-> endIndex - startOf(contents, endNode)]>>

\* the characters of a range, read across the text nodes in document order
RangeText(contents, range) ==
    IF range.startNode = range.endNode
    THEN substring(contents[range.startNode], range.startOffset, range.endOffset)
    ELSE substring(contents[range.startNode], range.startOffset,
                   Len(contents[range.startNode]))
           \o concatenate(SubSeq(contents, range.startNode + 1, range.endNode - 1))
           \o substring(contents[range.endNode], 0, range.endOffset)

\* the contents of a text node, the empty one included, and the texts
\* searched for (a saved text is never empty; the two characters are
\* interchangeable, so the texts begin with the first)
NodeContents == UNION {[1 .. n -> {"a", "b"}] : n \in 0 .. MaxText}
SearchTexts ==
    {text \in UNION {[1 .. n -> {"a", "b"}] : n \in 1 .. (MaxText + 1)} : text[1] = "a"}
Documents == UNION {[1 .. n -> NodeContents] : n \in 0 .. MaxNodes}

\* scrollToAndHighlightText looks for a text across the elements of a page
RangeCall ==
    /\ rangeCase = <<>>
    /\ \E contents \in Documents, searchText \in SearchTexts :
          rangeCase' = <<[contents |-> contents, searchText |-> searchText,
                          range |-> findTextRangeAcrossElements(searchText, contents)]>>
    /\ UNCHANGED keyCase
    /\ UNCHANGED <<storageVars, rateVars, sumVars, tripVars, pageVars, domVars, locVars, cacheVars>>

NextRange == RangeCall

SpecRange == InitConfigured /\ [][NextRange]_vars

\* C40: for text nodes of any contents and a search text that occurs in
\* their concatenation, findTextRangeAcrossElements returns a start and an
\* end such that the characters between them, read across the nodes in
\* document order, are the search text; it returns null only when the text
\* does not occur in the concatenation.
C40_RangeIsTheText ==
    \A n \in 1 .. Len(rangeCase) :
        LET c == rangeCase[n]
        IN IF indexOf(concatenate(c.contents), c.searchText) = -1
           THEN c.range = NoRange
           ELSE /\ c.range # NoRange
                /\ RangeText(c.contents, c.range[1]) = c.searchText

\* a text was found that begins in one text node, runs through a second and
\* ends in a third
C40_Witness ==
    \E n \in 1 .. Len(rangeCase) :
        /\ rangeCase[n].range # NoRange
        /\ rangeCase[n].range[1].endNode = rangeCase[n].range[1].startNode + 2
        /\ rangeCase[n].range[1].startOffset > 0
====
